---- MODULE Spec2Model ----
(***************************************************************************)
(* VistaTrek: the constraint solver (backend/app/services/                 *)
(* constraint_solver.py), the trip mutation endpoints that call it         *)
(* (backend/app/routers/trips.py), and the planning functions: the two     *)
(* golden-cluster scorers (api/index.py, backend/app/services/             *)
(* trip_planner.py), the meso-point sampling (backend/app/utils/geo.py)    *)
(* and the POI pool (trip_planner.py); the planning entry points and the   *)
(* readers of Overpass elements (trip_planner.py, services/pois.py,        *)
(* api/index.py); the conversation phases (services/conversation.py); and  *)
(* the report pipeline (api/agents/graph.py).                              *)
(*                                                                         *)
(* Time is counted in seconds since midnight of the trip date, so 08:00 is *)
(* 28800.  Coordinates are points of a meridian 10 km apart, numbered      *)
(* 0, 1, ...: on a meridian the haversine distance is additive, so the     *)
(* distance between points a and b is 10 * |a - b| km.                     *)
(*                                                                         *)
(* A timestamp field of a stop (planned_arrival, planned_departure,        *)
(* estimated_arrival) is a JSON value.  It is modelled by its shape k and  *)
(* the wall-clock time t it spells:                                        *)
(*   "none"    absent, None or the empty string                            *)
(*   "naive"   "2024-06-15T08:15:36"          (what isoformat() writes)    *)
(*   "zulu"    "2024-06-15T08:15:36Z"                                      *)
(*   "plus"    "2024-06-15T08:15:36+03:00"                                 *)
(*   "minus"   "2024-06-15T08:15:36-05:00"                                 *)
(*   "bad"     a string that is no ISO timestamp ("not a date")            *)
(*   "nonstr"  a JSON value that is no string (12345)                      *)
(***************************************************************************)
EXTENDS Integers, Sequences, FiniteSets, TLC

VARIABLES
    trip_data,       \* ConstraintSolver.trip_data: the dict the solver works on
    departure_time,  \* ConstraintSolver.departure_time
    drive_times,     \* ConstraintSolver.drive_times: (from, to) -> seconds
    warnings,        \* ConstraintSolver.warnings
    before,          \* trip_data as it was when the last solve() was called;
                     \* for a planning function, the arguments of the call
    pc,              \* "ready", "returned" (the call returned), "raised" (it raised)
    db_trip,         \* TripModel.data: the stored trip
    response         \* what the last endpoint call answered; for
                     \* optimize_stop_order and a planning function, what it returned

vars == <<trip_data, departure_time, drive_times, warnings, before, pc, db_trip, response>>

(***************************************************************************)
(* Bounds of the model.                                                    *)
(***************************************************************************)
MaxStops == 2

Locations == {0, 1}
Durations == {30, 330}

(***************************************************************************)
(* Timestamps.                                                             *)
(***************************************************************************)
None == [k |-> "none", t |-> 0]

\* datetime.isoformat() of a naive datetime
Iso(t) == [k |-> "naive", t |-> t]

\* Python truthiness of a timestamp field: stop.get("planned_arrival")
Truthy(ts) == ts.k # "none"

\* _parse_datetime: None for a falsy or unparsable string; "Z" and "+hh:mm" are
\* cut off and the rest is parsed as a naive datetime; a "-hh:mm" offset is not
\* cut off, so fromisoformat returns an aware datetime; a value that is no string
\* has no endswith, and the AttributeError is not among the caught exceptions.
_parse_datetime(ts) ==
    CASE ts.k = "none"   -> [r |-> "None", t |-> 0]
      [] ts.k = "nonstr" -> [r |-> "AttributeError", t |-> 0]
      [] ts.k = "naive"  -> [r |-> "naive", t |-> ts.t]
      [] ts.k = "zulu"   -> [r |-> "naive", t |-> ts.t]
      [] ts.k = "plus"   -> [r |-> "naive", t |-> ts.t]
      [] ts.k = "minus"  -> [r |-> "aware", t |-> ts.t]
      [] OTHER           -> [r |-> "None", t |-> 0]

\* datetime.hour
HourOf(t) == (t % 86400) \div 3600

(***************************************************************************)
(* Drive times.                                                            *)
(***************************************************************************)
Abs(x) == IF x < 0 THEN 0 - x ELSE x

\* _haversine_km on the meridian grid
_haversine_km(c1, c2) == 10 * Abs(c2 - c1)

\* _get_drive_time: the precomputed time if there is one, else
\* (distance_km * 1.3 / 50) * 3600 seconds
_get_drive_time(dts, from_loc, to_loc) ==
    IF <<from_loc, to_loc>> \in DOMAIN dts
    THEN dts[<<from_loc, to_loc>>]
    ELSE (_haversine_km(from_loc, to_loc) * 13 * 3600) \div 500

(***************************************************************************)
(* The forward pass.                                                       *)
(***************************************************************************)
\* _find_anchors: the indices of the stops with is_anchor
_find_anchors(stops) == {i \in 1..Len(stops) : stops[i].is_anchor}

\* the "locked time" warning of _forward_pass (the stop's name is its id here)
LockedTimeWarning(stop, anchor_time, expected_arrival) ==
    [kind |-> "locked_time", stop |-> stop.id,
     at |-> anchor_time, earliest |-> expected_arrival]

\* the comparison anchor_time < expected_arrival
AnchorIsEarly(anchor_time, expected_arrival) == anchor_time < expected_arrival

\* the end of an iteration of the loop of _forward_pass: the departure is
\* written on the copy of the stop, and the loop variables move on
StepDone(acc, stop, stop_copy, arrived, ws) ==
    [current_time  |-> arrived + 60 * stop.duration_minutes,
     prev_location |-> stop.coordinates,
     updated_stops |-> Append(acc.updated_stops,
         [stop_copy EXCEPT
             !.planned_departure = Iso(arrived + 60 * stop.duration_minutes)]),
     warnings      |-> ws,
     raised        |-> FALSE]

\* LockedStep with the slip of moving an unreachable anchor to the earliest arrival
LockedStepOverriding(acc, stop, parsed, expected_arrival) ==
    CASE parsed.r = "AttributeError" ->
            [acc EXCEPT !.raised = TRUE]
      [] parsed.r = "naive" /\ AnchorIsEarly(parsed.t, expected_arrival) ->
            StepDone(acc, stop, [stop EXCEPT !.planned_arrival = Iso(expected_arrival)],
                expected_arrival,
                Append(acc.warnings, LockedTimeWarning(stop, parsed.t, expected_arrival)))
      [] parsed.r = "naive" ->
            StepDone(acc, stop, stop, parsed.t, acc.warnings)
      [] OTHER ->
            StepDone(acc, stop, stop, expected_arrival, acc.warnings)

\* the branch of the loop for an anchor that carries a planned_arrival, which
\* parses to parsed, when the earliest arrival is expected_arrival
LockedStep(acc, stop, parsed, expected_arrival) ==
    CASE parsed.r = "AttributeError" ->
            [acc EXCEPT !.raised = TRUE]
      [] parsed.r = "naive" ->
            StepDone(acc, stop, stop, parsed.t,
                IF AnchorIsEarly(parsed.t, expected_arrival)
                THEN Append(acc.warnings,
                         LockedTimeWarning(stop, parsed.t, expected_arrival))
                ELSE acc.warnings)
      \* None < datetime and aware < naive raise TypeError, which is caught
      [] OTHER ->
            StepDone(acc, stop, stop, expected_arrival, acc.warnings)

\* the branch of the loop for every other stop: the arrival is computed and written
ComputedStep(acc, stop, expected_arrival) ==
    StepDone(acc, stop, [stop EXCEPT !.planned_arrival = Iso(expected_arrival)],
             expected_arrival, acc.warnings)

\* ForwardStep with the slip of leaving skipped stops out of the updated stops
ForwardStepDroppingSkipped(dts, anchors, stop, i, acc) ==
    IF stop.skipped
    THEN acc
    ELSE IF i \in anchors /\ Truthy(stop.planned_arrival)
    THEN LockedStep(acc, stop, _parse_datetime(stop.planned_arrival),
             acc.current_time + _get_drive_time(dts, acc.prev_location, stop.coordinates))
    ELSE ComputedStep(acc, stop,
             acc.current_time + _get_drive_time(dts, acc.prev_location, stop.coordinates))

\* One iteration of the loop of _forward_pass, on the loop variables acc.
ForwardStep(dts, anchors, stop, i, acc) ==
    IF i \in anchors /\ Truthy(stop.planned_arrival)
    THEN LockedStep(acc, stop, _parse_datetime(stop.planned_arrival),
             acc.current_time + _get_drive_time(dts, acc.prev_location, stop.coordinates))
    ELSE ComputedStep(acc, stop,
             acc.current_time + _get_drive_time(dts, acc.prev_location, stop.coordinates))

RECURSIVE ForwardLoop(_, _, _, _, _)
ForwardLoop(dts, anchors, stops, i, acc) ==
    IF i > Len(stops) \/ acc.raised
    THEN acc
    ELSE ForwardLoop(dts, anchors, stops, i + 1,
                     ForwardStep(dts, anchors, stops[i], i, acc))

\* FinalArrival with the slip of leaving out the last leg
FinalArrivalNoLastLeg(dts, acc, end_location) == acc.current_time

\* final_arrival of _forward_pass
FinalArrival(dts, acc, end_location) ==
    acc.current_time + _get_drive_time(dts, acc.prev_location, end_location)

\* what _forward_pass leaves when its loop ended with the loop variables acc: the
\* updated stops it returns and the estimated arrival it stores on the trip
ForwardResult(dts, end_location, acc) ==
    [updated_stops     |-> acc.updated_stops,
     warnings          |-> acc.warnings,
     raised            |-> acc.raised,
     estimated_arrival |-> IF acc.raised THEN None
                           ELSE Iso(FinalArrival(dts, acc, end_location))]

\* _forward_pass
_forward_pass(dts, dep, td, anchors) ==
    ForwardResult(dts, td.end_location,
        ForwardLoop(dts, anchors, td.stops, 1,
            [current_time  |-> dep,
             prev_location |-> td.start_location,
             updated_stops |-> <<>>,
             warnings      |-> <<>>,
             raised        |-> FALSE]))

(***************************************************************************)
(* The validation pass.                                                    *)
(***************************************************************************)
\* the opening-hours check of one stop: the warnings with this stop's added
HoursWarnings(stop, ws) ==
    LET arrival == _parse_datetime(stop.planned_arrival)
    IN  IF stop.tags = "hours" /\ arrival.r \in {"naive", "aware"}
        THEN IF HourOf(arrival.t) < 7
             THEN Append(ws, [kind |-> "too_early", stop |-> stop.id, at |-> arrival.t])
             ELSE IF HourOf(arrival.t) >= 20
             THEN Append(ws, [kind |-> "too_late", stop |-> stop.id, at |-> arrival.t])
             ELSE ws
        ELSE ws

RECURSIVE ValidateLoop(_, _, _)
ValidateLoop(stops, i, acc) ==
    IF i > Len(stops) \/ acc.raised
    THEN acc
    ELSE ValidateLoop(stops, i + 1,
             IF stops[i].tags = "nondict"
             THEN [acc EXCEPT !.raised = TRUE]   \* tags.get: AttributeError
             ELSE [acc EXCEPT !.warnings = HoursWarnings(stops[i], acc.warnings)])

\* the total-duration check: last departure - first arrival, in seconds, over 10 hours
\* (an aware first arrival cannot be subtracted from the naive departure: the
\* TypeError is caught)
LongTripWarnings(stops, ws) ==
    IF stops = <<>> THEN ws
    ELSE LET first_arrival == _parse_datetime(stops[1].planned_arrival)
             last_departure == _parse_datetime(stops[Len(stops)].planned_departure)
         IN  IF first_arrival.r = "naive" /\ last_departure.r = "naive"
                /\ last_departure.t - first_arrival.t > 10 * 3600
             THEN Append(ws, [kind |-> "long_trip", stop |-> 0,
                              at |-> last_departure.t - first_arrival.t])
             ELSE ws

\* the end of _validate_constraints, after the loop over the stops
ValidateResult(stops, acc) ==
    IF acc.raised THEN acc
    ELSE [acc EXCEPT !.warnings = LongTripWarnings(stops, acc.warnings)]

\* _validate_constraints on the updated stops, adding to the warnings ws
_validate_constraints(stops, ws) ==
    ValidateResult(stops, ValidateLoop(stops, 1, [warnings |-> ws, raised |-> FALSE]))

(***************************************************************************)
(* solve.                                                                  *)
(***************************************************************************)
\* solve after the validation pass ended with v: the stops are replaced
SolveValidated(td1, fp, v) ==
    IF v.raised
    THEN [trip_data |-> td1, warnings |-> v.warnings, raised |-> TRUE]
    ELSE [trip_data |-> [td1 EXCEPT !.stops = fp.updated_stops],
          warnings |-> v.warnings, raised |-> FALSE]

\* solve after the forward pass ended with fp, which has stored the estimated
\* arrival on the trip unless it raised
SolveForwarded(td, fp) ==
    IF fp.raised
    THEN [trip_data |-> td, warnings |-> fp.warnings, raised |-> TRUE]
    ELSE SolveValidated([td EXCEPT !.estimated_arrival = fp.estimated_arrival], fp,
                        _validate_constraints(fp.updated_stops, fp.warnings))

\* solve with the slip of leaving out the early return for an empty stop list
SolveNoEarlyReturn(dts, dep, td) ==
    SolveForwarded(td, _forward_pass(dts, dep, td, _find_anchors(td.stops)))

\* ConstraintSolver.solve on trip data td: the trip data afterwards, self.warnings,
\* and whether it raised instead of returning
solve(dts, dep, td) ==
    IF td.stops = <<>>
    THEN [trip_data |-> td, warnings |-> <<>>, raised |-> FALSE]
    ELSE SolveForwarded(td, _forward_pass(dts, dep, td, _find_anchors(td.stops)))

(***************************************************************************)
(* SolveSpec: solve() on every trip of the bounded input sets.             *)
(***************************************************************************)
\* (is_anchor, planned_arrival) of an input stop.  08:15:36 is the arrival at
\* point 1 when leaving point 0 at 08:00; 06:00:00 is before every departure.
ArrivalCases ==
    { <<FALSE, None>>,
      <<TRUE, None>>,
      <<TRUE, Iso(29736)>>,
      <<TRUE, [k |-> "plus", t |-> 21600]>>,
      <<TRUE, [k |-> "minus", t |-> 29736]>>,
      <<TRUE, [k |-> "bad", t |-> 0]>> }

\* The shapes of an input stop: every (is_anchor, planned_arrival) case above on
\* an untagged stop, an anchor whose planned_arrival is no string, skipped stops,
\* stops that carry an opening_hours tag, and a stop whose tags are a JSON value
\* that is no object (the list ["scenic"]).
StopShapes ==
    [coordinates : Locations, duration_minutes : Durations, arrival : ArrivalCases,
     skipped : {FALSE}, tags : {"none"}]
    \cup
    [coordinates : {1}, duration_minutes : {30},
     arrival : {<<TRUE, [k |-> "nonstr", t |-> 0]>>},
     skipped : {FALSE}, tags : {"none"}]
    \cup
    [coordinates : Locations, duration_minutes : {30}, arrival : {<<FALSE, None>>},
     skipped : {TRUE}, tags : {"none"}]
    \cup
    [coordinates : {1}, duration_minutes : {30},
     arrival : {<<FALSE, None>>, <<TRUE, [k |-> "plus", t |-> 21600]>>},
     skipped : {FALSE}, tags : {"hours"}]
    \cup
    [coordinates : {1}, duration_minutes : {30}, arrival : {<<FALSE, None>>},
     skipped : {FALSE}, tags : {"nondict"}]

\* the stop dict of shape sh with identifier id
MakeStop(id, sh) ==
    [id |-> id, coordinates |-> sh.coordinates,
     duration_minutes |-> sh.duration_minutes,
     is_anchor |-> sh.arrival[1], planned_arrival |-> sh.arrival[2],
     planned_departure |-> None, skipped |-> sh.skipped, tags |-> sh.tags]

\* departure times: the default 08:00, and 14:30 given explicitly
DepartureTimes == {28800, 52200}

\* drive_times: none precomputed, or 20 minutes from point 0 to point 1
DriveTimeTables == { <<>>, (<<0, 1>> :> 1200) }

\* the trip as create_trip stores it: no stops, no estimated arrival.  (A trip
\* without stops carries an estimated arrival when its stops have been removed.)
EmptyTrip(start_location, end_location) ==
    [stops |-> <<>>, start_location |-> start_location,
     end_location |-> end_location, estimated_arrival |-> None]

NoResponse == [status |-> "none", warnings |-> <<>>]

SolveInit ==
    /\ \E n \in 0..MaxStops : \E shapes \in [1..n -> StopShapes] :
       \E est \in (IF n = 0 THEN {None, Iso(36000)} ELSE {None}) :
          trip_data = [EmptyTrip(0, 1) EXCEPT
                          !.stops = [i \in 1..n |-> MakeStop(i, shapes[i])],
                          !.estimated_arrival = est]
    /\ departure_time \in DepartureTimes
    /\ drive_times \in DriveTimeTables
    /\ warnings = <<>>
    /\ before = trip_data
    /\ pc = "ready"
    /\ db_trip = EmptyTrip(0, 0)
    /\ response = NoResponse

\* a call of solve() on the solver's trip data
SolveCall ==
    /\ pc \in {"ready", "returned"}
    /\ \E r \in {solve(drive_times, departure_time, trip_data)} :
           /\ trip_data' = r.trip_data
           /\ warnings' = r.warnings
           /\ pc' = IF r.raised THEN "raised" ELSE "returned"
    /\ before' = trip_data
    /\ UNCHANGED <<departure_time, drive_times, db_trip, response>>

SolveNext == SolveCall

SolveSpec == SolveInit /\ [][SolveNext]_vars

(***************************************************************************)
(* The trip endpoints of routers/trips.py, on one stored trip.             *)
(***************************************************************************)
MaxTripStops == 2

\* add-stop is called only while the stored estimated arrival is not later than
\* this many seconds after midnight (an anchor added without a planned_arrival
\* is locked at the time computed for it, so that the stored times can grow for
\* ever as stops are added and removed)
Horizon == 33000

TripIds == {1, 2}

\* 08:00 on the trip date: the departure time of a solver built without one
DefaultDeparture == 28800

\* the stops add-stop is called with
TripStopShapes ==
    [coordinates : Locations, duration_minutes : {30},
     arrival : {<<FALSE, None>>, <<TRUE, None>>, <<TRUE, Iso(29736)>>},
     skipped : {FALSE}, tags : {"none"}]

\* the position parameter of add-stop: not given, or an integer
Positions ==
    {[given |-> FALSE, index |-> 0]}
    \cup [given : {TRUE}, index : (0 - 1)..(MaxTripStops + 1)]

\* list.insert(position, x) for 0 <= position <= len
InsertAt(stops, position, x) ==
    SubSeq(stops, 1, position) \o <<x>> \o SubSeq(stops, position + 1, Len(stops))

\* the ids of all sequences of at most n stop ids
RECURSIVE IdLists(_)
IdLists(n) ==
    IF n = 0 THEN {<<>>}
    ELSE IdLists(n - 1)
         \cup {Append(l, id) : l \in {m \in IdLists(n - 1) : Len(m) = n - 1}, id \in TripIds}

\* stop_map[id] of reorder_stops: a dict comprehension keeps the last stop of an id
stop_map(stops, id) ==
    stops[CHOOSE i \in 1..Len(stops) :
             /\ stops[i].id = id
             /\ \A j \in (i + 1)..Len(stops) : stops[j].id # id]

\* ConstraintSolver(trip_data).solve() as the endpoints call it
SolverRun(td) == solve(<<>>, DefaultDeparture, td)

\* the end of an endpoint: the solved trip is stored and answered, unless solve
\* raised, and then nothing is stored
Commit(r) ==
    IF r.raised
    THEN /\ response' = [status |-> "500", warnings |-> <<>>]
         /\ UNCHANGED db_trip
    ELSE /\ db_trip' = r.trip_data
         /\ response' = [status |-> "ok", warnings |-> r.warnings]

\* POST /{trip_id}/add-stop
add_stop_to_trip(id, sh, position) ==
    /\ Len(db_trip.stops) < MaxTripStops
    /\ db_trip.estimated_arrival.t <= Horizon
    /\ LET stops == db_trip.stops
           stop_data == MakeStop(id, sh)
       IN  IF position.given /\ 0 <= position.index /\ position.index <= Len(stops)
           THEN Commit(SolverRun([db_trip EXCEPT
                    !.stops = InsertAt(stops, position.index, stop_data)]))
           ELSE Commit(SolverRun([db_trip EXCEPT !.stops = Append(stops, stop_data)]))
    /\ UNCHANGED <<trip_data, departure_time, drive_times, warnings, before, pc>>

\* DELETE /{trip_id}/stops/{stop_id}
remove_stop_from_trip(stop_id) ==
    /\ LET stops == SelectSeq(db_trip.stops, LAMBDA st : st.id # stop_id)
       IN  IF Len(stops) = Len(db_trip.stops)
           THEN /\ response' = [status |-> "404", warnings |-> <<>>]
                /\ UNCHANGED db_trip
           ELSE Commit(SolverRun([db_trip EXCEPT !.stops = stops]))
    /\ UNCHANGED <<trip_data, departure_time, drive_times, warnings, before, pc>>

\* POST /{trip_id}/reorder
reorder_stops(stop_ids) ==
    /\ IF \E k \in 1..Len(stop_ids) :
              \A i \in 1..Len(db_trip.stops) : db_trip.stops[i].id # stop_ids[k]
       THEN /\ response' = [status |-> "400", warnings |-> <<>>]
            /\ UNCHANGED db_trip
       ELSE Commit(SolverRun([db_trip EXCEPT
                !.stops = [k \in 1..Len(stop_ids) |-> stop_map(db_trip.stops, stop_ids[k])]]))
    /\ UNCHANGED <<trip_data, departure_time, drive_times, warnings, before, pc>>

TripInit ==
    /\ db_trip \in {EmptyTrip(0, e) : e \in Locations}
    /\ response = NoResponse
    /\ trip_data = EmptyTrip(0, 0)
    /\ departure_time = DefaultDeparture
    /\ drive_times = <<>>
    /\ warnings = <<>>
    /\ before = trip_data
    /\ pc = "ready"

TripNext ==
    \/ \E id \in TripIds, sh \in TripStopShapes, position \in Positions :
          add_stop_to_trip(id, sh, position)
    \/ \E stop_id \in TripIds : remove_stop_from_trip(stop_id)
    \/ \E stop_ids \in IdLists(MaxTripStops) : reorder_stops(stop_ids)

TripSpec == TripInit /\ [][TripNext]_vars

\* a fresh forward pass over the stored trip, as the endpoints' solver makes it
StoredForwardPass ==
    _forward_pass(<<>>, DefaultDeparture, db_trip, _find_anchors(db_trip.stops))

\* C7: after any sequence of add-stop, remove-stop and reorder calls, the stored
\* times of the stops that are no anchors and the stored estimated arrival are
\* those of a fresh forward pass over the stored stops; a trip whose stops are
\* all removed carries no estimated arrival.
TimingConsistent ==
    /\ db_trip.stops # <<>> =>
          /\ ~StoredForwardPass.raised
          /\ \A i \in 1..Len(db_trip.stops) :
                ~db_trip.stops[i].is_anchor =>
                    db_trip.stops[i] = StoredForwardPass.updated_stops[i]
          /\ db_trip.estimated_arrival = StoredForwardPass.estimated_arrival
    /\ db_trip.stops = <<>> => db_trip.estimated_arrival = None

\* The same without the last part: a trip that has stops is timed consistently.
TimingConsistentWithStops ==
    db_trip.stops # <<>> =>
        /\ ~StoredForwardPass.raised
        /\ \A i \in 1..Len(db_trip.stops) :
              ~db_trip.stops[i].is_anchor =>
                  db_trip.stops[i] = StoredForwardPass.updated_stops[i]
        /\ db_trip.estimated_arrival = StoredForwardPass.estimated_arrival

(***************************************************************************)
(* Properties of solve, stated on the trip before the call (before) and    *)
(* the solver's trip data and warnings after it.                           *)
(***************************************************************************)
Returned == pc = "returned"

StopCount == Len(before.stops)

\* the time the forward pass has reached before stop i: the trip departure for
\* the first stop, the departure written on the stop before it otherwise
TimeBefore(i) ==
    IF i = 1 THEN departure_time ELSE trip_data.stops[i - 1].planned_departure.t

\* the drive time to stop i from the start location or the stop before it
DriveTo(i) ==
    _get_drive_time(drive_times,
        IF i = 1 THEN before.start_location ELSE before.stops[i - 1].coordinates,
        before.stops[i].coordinates)

EarliestArrival(i) == TimeBefore(i) + DriveTo(i)

HasWarning(kind, id) ==
    \E j \in 1..Len(warnings) : warnings[j].kind = kind /\ warnings[j].stop = id

\* stop i is an anchor that carries a planned_arrival on input
CarriesAnchorTime(i) ==
    before.stops[i].is_anchor /\ Truthy(before.stops[i].planned_arrival)

\* the planned_arrival of input stop i is a timestamp that parses
Parsable(i) == _parse_datetime(before.stops[i].planned_arrival).r \in {"naive", "aware"}

AnchorTime(i) == _parse_datetime(before.stops[i].planned_arrival).t

\* C1: every stop that is an anchor and carries a planned_arrival on input has
\* the same planned_arrival in the output of solve, warning or not.
AnchorPreserved ==
    Returned =>
        /\ Len(trip_data.stops) = StopCount
        /\ \A i \in 1..StopCount :
              CarriesAnchorTime(i) =>
                  trip_data.stops[i].planned_arrival = before.stops[i].planned_arrival

\* an anchor time was kept although a locked-time warning was emitted for it
AnchorPreservedWitness ==
    /\ Returned
    /\ \E i \in 1..StopCount :
          /\ CarriesAnchorTime(i)
          /\ HasWarning("locked_time", before.stops[i].id)
          /\ trip_data.stops[i].planned_arrival = before.stops[i].planned_arrival

\* C2: for an anchor with a parsable planned_arrival at any position, solve warns
\* exactly when the anchor time is earlier than the earliest arrival, and goes on
\* from the anchor time in both cases.
AnchorViolationDetected ==
    Returned =>
        \A i \in 1..StopCount :
            (before.stops[i].is_anchor /\ Parsable(i)) =>
                /\ HasWarning("locked_time", before.stops[i].id)
                      <=> AnchorTime(i) < EarliestArrival(i)
                /\ trip_data.stops[i].planned_departure =
                      Iso(AnchorTime(i) + 60 * before.stops[i].duration_minutes)

\* The same for the anchors whose planned_arrival parses to a naive datetime
\* (no offset, or a "Z" or "+hh:mm" suffix, which is dropped).
AnchorViolationDetectedNaive ==
    Returned =>
        \A i \in 1..StopCount :
            (before.stops[i].is_anchor
                /\ _parse_datetime(before.stops[i].planned_arrival).r = "naive") =>
                /\ HasWarning("locked_time", before.stops[i].id)
                      <=> AnchorTime(i) < EarliestArrival(i)
                /\ trip_data.stops[i].planned_departure =
                      Iso(AnchorTime(i) + 60 * before.stops[i].duration_minutes)

\* C3: every stop that is not a fixed anchor gets planned_arrival = the time
\* before it + the drive to it, and every stop gets planned_departure = its
\* arrival, or anchor time, + its duration.
ForwardPropagation ==
    Returned =>
        \A i \in 1..StopCount :
            LET fixed == before.stops[i].is_anchor /\ Parsable(i)
                arrival == IF fixed THEN AnchorTime(i) ELSE EarliestArrival(i)
            IN  /\ ~fixed => trip_data.stops[i].planned_arrival = Iso(EarliestArrival(i))
                /\ trip_data.stops[i].planned_departure =
                      Iso(arrival + 60 * before.stops[i].duration_minutes)

\* The same when "fixed anchor" is read as the branch the code takes (is_anchor
\* with any planned_arrival), and the departure as following the anchor time
\* only if that parses to a naive datetime.
ForwardPropagationAsCoded ==
    Returned =>
        \A i \in 1..StopCount :
            LET naive == _parse_datetime(before.stops[i].planned_arrival).r = "naive"
                arrival == IF CarriesAnchorTime(i) /\ naive
                           THEN AnchorTime(i) ELSE EarliestArrival(i)
            IN  /\ ~CarriesAnchorTime(i) =>
                      trip_data.stops[i].planned_arrival = Iso(EarliestArrival(i))
                /\ trip_data.stops[i].planned_departure =
                      Iso(arrival + 60 * before.stops[i].duration_minutes)

\* the stops of a list that are not skipped, in order
NotSkipped(stops) == SelectSeq(stops, LAMBDA st : ~st.skipped)

\* the planned times of the stops of a list
PlannedTimes(stops) ==
    [i \in 1..Len(stops) |-> <<stops[i].planned_arrival, stops[i].planned_departure>>]

RECURSIVE SumDurations(_)
SumDurations(stops) ==
    IF stops = <<>> THEN 0
    ELSE Head(stops).duration_minutes + SumDurations(Tail(stops))

\* C4: after solve on a non-empty list the trip's estimated_arrival is the last
\* stop's planned_departure plus the drive from the last stop to end_location;
\* it is a field of the trip, and the stops change in their planned times only.
EstimatedArrivalStored ==
    (Returned /\ before.stops # <<>>) =>
        /\ trip_data.estimated_arrival =
              Iso(trip_data.stops[StopCount].planned_departure.t
                  + _get_drive_time(drive_times, trip_data.stops[StopCount].coordinates,
                                 trip_data.end_location))
        /\ \A i \in 1..StopCount :
              [trip_data.stops[i] EXCEPT
                  !.planned_arrival = before.stops[i].planned_arrival,
                  !.planned_departure = before.stops[i].planned_departure]
              = before.stops[i]

\* solve returned for a trip whose last stop is not at the end location, so the
\* last leg takes time
EstimatedArrivalWitness ==
    /\ Returned
    /\ StopCount >= 2
    /\ before.estimated_arrival = None
    /\ trip_data.stops[StopCount].coordinates # trip_data.end_location
    /\ trip_data.estimated_arrival.t > trip_data.stops[StopCount].planned_departure.t

\* what solve yields for the trip before the call with its skipped stops removed
SolveWithoutSkipped ==
    solve(drive_times, departure_time,
          [before EXCEPT !.stops = NotSkipped(before.stops)])

\* C5: a skipped stop stays in the list at its position, and the planned times
\* of the other stops and the estimated arrival are those solve computes for
\* the list without the skipped stops.
SkippedExcluded ==
    (Returned /\ NotSkipped(before.stops) # <<>>) =>
        /\ Len(trip_data.stops) = StopCount
        /\ \A i \in 1..StopCount : trip_data.stops[i].id = before.stops[i].id
        /\ PlannedTimes(NotSkipped(trip_data.stops))
              = PlannedTimes(SolveWithoutSkipped.trip_data.stops)
        /\ trip_data.estimated_arrival = SolveWithoutSkipped.trip_data.estimated_arrival

\* C6: solve on a trip without stops returns the trip unchanged, estimated_arrival
\* included, and no warnings.
EmptyUnchanged ==
    (Returned /\ before.stops = <<>>) =>
        /\ trip_data = before
        /\ warnings = <<>>

\* solve returned for a trip without stops
EmptyUnchangedWitness ==
    /\ Returned
    /\ before.stops = <<>>
    /\ trip_data.estimated_arrival # None
    /\ trip_data.start_location # trip_data.end_location

\* C8: the output of solve has the input's length and, at every index, the
\* input's stop id.
OrderKept ==
    Returned =>
        /\ Len(trip_data.stops) = StopCount
        /\ \A i \in 1..StopCount : trip_data.stops[i].id = before.stops[i].id

\* solve returned, with a locked-time warning, for a list of two or more stops
\* one of which is skipped
OrderKeptWitness ==
    /\ Returned
    /\ StopCount >= 2
    /\ \E i \in 1..StopCount : before.stops[i].skipped
    /\ \E i \in 1..StopCount : HasWarning("locked_time", before.stops[i].id)
    /\ \A i \in 1..StopCount : trip_data.stops[i].id = i

\* C9: whenever the durations of the stops sum to more than 600 minutes, solve
\* emits the long-trip warning.
OverbookedDetected ==
    (Returned /\ SumDurations(before.stops) > 600) => HasWarning("long_trip", 0)

\* The same for the lists in which no anchor carries a planned_arrival.
OverbookedDetectedUnanchored ==
    (Returned /\ SumDurations(before.stops) > 600
        /\ \A i \in 1..StopCount : ~CarriesAnchorTime(i))
    => HasWarning("long_trip", 0)

\* C10: an anchor whose planned_arrival is present but does not parse does not
\* make solve raise, and is scheduled as a computed stop: its planned_arrival is
\* the earliest arrival, its planned_departure that plus its duration.
MalformedTreatedAsAbsent ==
    /\ pc = "raised" =>
          \A i \in 1..StopCount : ~(CarriesAnchorTime(i) /\ ~Parsable(i))
    /\ Returned =>
          \A i \in 1..StopCount :
              (CarriesAnchorTime(i) /\ ~Parsable(i)) =>
                  /\ trip_data.stops[i].planned_arrival = Iso(EarliestArrival(i))
                  /\ trip_data.stops[i].planned_departure =
                        Iso(EarliestArrival(i) + 60 * before.stops[i].duration_minutes)

\* What the code does for such an anchor when the value is a string: the time
\* moves on as for a computed stop, and the unparsable planned_arrival stays.
MalformedKeptAsWritten ==
    Returned =>
        \A i \in 1..StopCount :
            (CarriesAnchorTime(i) /\ ~Parsable(i)) =>
                /\ trip_data.stops[i].planned_arrival = before.stops[i].planned_arrival
                /\ trip_data.stops[i].planned_departure =
                      Iso(EarliestArrival(i) + 60 * before.stops[i].duration_minutes)

(***************************************************************************)
(* OrderSpec: optimize_stop_order() on every stop list of the bounded      *)
(* input sets.  The method reads a stop's coordinates and is_anchor only.  *)
(***************************************************************************)
MaxOrderStops == 4

OrderLocations == 0..3

\* the stop dicts optimize_stop_order is called on
OrderStops ==
    UNION {[1..n -> [coordinates : OrderLocations, is_anchor : BOOLEAN]] :
              n \in 0..MaxOrderStops}

\* drive_times: none precomputed, or one minute from point 1 to point 3
OrderDriveTimeTables == { <<>>, (<<1, 3>> :> 60) }

Min(a, b) == IF a < b THEN a ELSE b

\* the inner loop of optimize_stop_order: the index of the first stop of
\* remaining whose drive time from current is below that of all before it and
\* not above that of any after it (drive_time < min_time, min_time = inf first)
NearestIdx(dts, current, remaining) ==
    CHOOSE i \in 1..Len(remaining) :
        /\ \A j \in 1..(i - 1) :
              _get_drive_time(dts, current, remaining[j].coordinates)
                  > _get_drive_time(dts, current, remaining[i].coordinates)
        /\ \A j \in (i + 1)..Len(remaining) :
              _get_drive_time(dts, current, remaining[j].coordinates)
                  >= _get_drive_time(dts, current, remaining[i].coordinates)

\* remaining.pop(idx)
PopAt(remaining, idx) ==
    SubSeq(remaining, 1, idx - 1) \o SubSeq(remaining, idx + 1, Len(remaining))

\* the while loop of optimize_stop_order
RECURSIVE NearestNeighbour(_, _, _, _)
NearestNeighbour(dts, current, ordered, remaining) ==
    IF remaining = <<>> THEN ordered
    ELSE LET nearest_idx == NearestIdx(dts, current, remaining)
         IN  NearestNeighbour(dts, remaining[nearest_idx].coordinates,
                              Append(ordered, remaining[nearest_idx]),
                              PopAt(remaining, nearest_idx))

\* the slip of putting every locked stop at the end of the list
InsertLockedAtEnd(result, orig_idx, stop) == Append(result, stop)

\* result.insert(min(orig_idx, len(result)), stop), orig_idx counted from 0
InsertLocked(result, orig_idx, stop) ==
    InsertAt(result, Min(orig_idx, Len(result)), stop)

\* the merge loop of optimize_stop_order over the locked stops from index i on
RECURSIVE MergeLocked(_, _, _)
MergeLocked(result, stops, i) ==
    IF i > Len(stops) THEN result
    ELSE MergeLocked(IF stops[i].is_anchor
                     THEN InsertLocked(result, i - 1, stops[i])
                     ELSE result,
                     stops, i + 1)

\* optimize_stop_order
optimize_stop_order(dts, td) ==
    LET stops == td.stops
        unlocked == SelectSeq(stops, LAMBDA s : ~s.is_anchor)
    IN  IF Len(stops) <= 2 THEN stops
        ELSE IF unlocked = <<>> THEN stops
        ELSE MergeLocked(NearestNeighbour(dts, td.start_location, <<>>, unlocked),
                         stops, 1)

OrderInit ==
    /\ \E stops \in OrderStops :
          trip_data = [EmptyTrip(1, 1) EXCEPT
                          !.stops = [i \in 1..Len(stops) |->
                                        [id |-> i,
                                         coordinates |-> stops[i].coordinates,
                                         is_anchor |-> stops[i].is_anchor]]]
    /\ drive_times \in OrderDriveTimeTables
    /\ departure_time = DefaultDeparture
    /\ warnings = <<>>
    /\ before = trip_data
    /\ pc = "ready"
    /\ db_trip = EmptyTrip(0, 0)
    /\ response = <<>>

\* a call of optimize_stop_order() on the solver's trip data
OptimizeCall ==
    /\ pc = "ready"
    /\ response' = optimize_stop_order(drive_times, trip_data)
    /\ pc' = "returned"
    /\ UNCHANGED <<trip_data, departure_time, drive_times, warnings, before, db_trip>>

OrderNext == OptimizeCall

OrderSpec == OrderInit /\ [][OrderNext]_vars

\* the unanchored stops of a list, in the list's order
Unanchored(stops) == SelectSeq(stops, LAMBDA s : ~s.is_anchor)

\* where the nearest-neighbour walk stands before the k-th stop of list u
WalkFrom(u, k) == IF k = 1 THEN trip_data.start_location ELSE u[k - 1].coordinates

\* list u is in greedy nearest-neighbour order from start_location
Greedy(u) ==
    \A k \in 1..Len(u) : \A j \in k..Len(u) :
        _get_drive_time(drive_times, WalkFrom(u, k), u[k].coordinates)
            <= _get_drive_time(drive_times, WalkFrom(u, k), u[j].coordinates)

\* C11: the list optimize_stop_order returns has as many stops as the input, and
\* every stop with is_anchor is at the index it had in the input.
ReorderStability ==
    Returned =>
        /\ Len(response) = Len(trip_data.stops)
        /\ \A i \in 1..Len(trip_data.stops) :
              trip_data.stops[i].is_anchor => response[i] = trip_data.stops[i]

\* optimize_stop_order returned a list in another order than the input's, with
\* two anchors that are not next to each other and unanchored stops around them
ReorderStabilityWitness ==
    /\ Returned
    /\ response # trip_data.stops
    /\ \E i, j \in 1..Len(trip_data.stops) :
          /\ j > i + 1
          /\ trip_data.stops[i].is_anchor
          /\ trip_data.stops[j].is_anchor
          /\ ~trip_data.stops[i + 1].is_anchor

\* C12: for a list of any length, the unanchored stops of the result of
\* optimize_stop_order are in greedy nearest-neighbour order: the first has the
\* least drive time from start_location, each next one the least drive time
\* from the one before it among those that remain.
ReorderGreedy == Returned => Greedy(Unanchored(response))

\* The same for the lists of three or more stops.
ReorderGreedyThreeOrMore ==
    (Returned /\ Len(trip_data.stops) >= 3) => Greedy(Unanchored(response))

(***************************************************************************)
(* ClusterSpec: the two golden-cluster scorers on every pool of the        *)
(* bounded input sets: find_golden_clusters of api/index.py (base 50) and  *)
(* TripPlannerService._create_golden_clusters (base 30).                   *)
(*                                                                         *)
(* The places of a pool lie on a line, at multiples of 100 m.  A place is  *)
(* [id, pos, kind, name]: kind is what its tags say ("viewpoint",          *)
(* "spring", "parking", "cafe", "bench") and, for the base-30 scorer, its  *)
(* POI type ("cafe" standing for COFFEE and FOOD); name is "" when the     *)
(* tags carry no name.                                                     *)
(***************************************************************************)
MaxAnchors == 2
MaxPool == 6

\* distance in metres between two places
Metres(a, b) == 100 * Abs(a.pos - b.pos)

\* the amenities around position 0, as (kind, position) lists
AmenityConfigs ==
    { <<>>,
      << <<"parking", 4>> >>,
      << <<"parking", 5>> >>,
      << <<"parking", 4>>, <<"parking", 3>> >>,
      << <<"cafe", 2>> >>,
      << <<"cafe", 3>> >>,
      << <<"bench", 2>> >>,
      << <<"bench", 2>>, <<"bench", 1>> >>,
      << <<"cafe", 2>>, <<"cafe", 1>> >>,
      << <<"bench", 1>>, <<"cafe", 2>> >>,
      << <<"parking", 4>>, <<"cafe", 2>> >>,
      << <<"parking", 4>>, <<"parking", 3>>, <<"cafe", 2>> >>,
      << <<"parking", 4>>, <<"cafe", 2>>, <<"bench", 2>> >> }

RankingAmenityConfigs ==
    { << <<"parking", 4>>, <<"cafe", 2>> >>,
      << <<"cafe", 2>>, <<"bench", 2>> >> }

AnchorShapes ==
    [pos : {0, 10}, kind : {"viewpoint", "spring"}, name : {"", "Scenic Point"}]

RankingAnchorShapes ==
    [pos : {0, 10}, kind : {"viewpoint"}, name : {"", "Scenic Point"}]

\* the pool of the anchors of shapes sh followed by the amenities am
MakePool(sh, am) ==
    [i \in 1..(Len(sh) + Len(am)) |->
        IF i <= Len(sh)
        THEN [id |-> i, pos |-> sh[i].pos, kind |-> sh[i].kind, name |-> sh[i].name]
        ELSE [id |-> i, pos |-> am[i - Len(sh)][2], kind |-> am[i - Len(sh)][1],
              name |-> ""]]

\* few anchors among every amenity configuration, and many anchors among two
Pools ==
    {MakePool(sh, am) :
        sh \in UNION {[1..n -> AnchorShapes] : n \in 0..MaxAnchors},
        am \in AmenityConfigs}
    \cup
    {MakePool(sh, am) :
        sh \in UNION {[1..n -> RankingAnchorShapes] : n \in 0..MaxPool},
        am \in RankingAmenityConfigs}

\* list.sort(key=lambda x: x.score, reverse=True): a stable sort, so among equal
\* scores the earlier element stays first
RECURSIVE SortedDescending(_)
SortedDescending(items) ==
    IF items = <<>> THEN <<>>
    ELSE LET rest == SortedDescending(SubSeq(items, 1, Len(items) - 1))
             x == items[Len(items)]
             k == Cardinality({i \in 1..Len(rest) : rest[i].score >= x.score})
         IN  SubSeq(rest, 1, k) \o <<x>> \o SubSeq(rest, k + 1, Len(rest))

\* golden_spots[:5]
FirstFive(items) == SubSeq(items, 1, Min(5, Len(items)))

\* the slip of adding the bonus for every parking in range
ParkingBonusPerSpot(anchor, parking_spots) ==
    20 * Cardinality({i \in 1..Len(parking_spots) :
                         Metres(anchor, parking_spots[i]) <= 400})

\* the parking loop of find_golden_clusters: +20 at the first parking within
\* 400 m, then break
ParkingBonus(anchor, parking_spots) ==
    IF \E i \in 1..Len(parking_spots) : Metres(anchor, parking_spots[i]) <= 400
    THEN 20 ELSE 0

\* the comfort loop of find_golden_clusters from index i on
RECURSIVE ComfortLoop(_, _, _, _)
ComfortLoop(anchor, comforts, i, acc) ==
    IF i > Len(comforts) THEN acc
    ELSE LET c == comforts[i]
         IN  ComfortLoop(anchor, comforts, i + 1,
                IF Metres(anchor, c) <= 200
                THEN IF c.kind = "cafe" /\ ~acc.has_cafe
                     THEN [acc EXCEPT !.has_cafe = TRUE, !.score = @ + 30]
                     ELSE IF c.kind = "bench" /\ ~acc.has_bench
                     THEN [acc EXCEPT !.has_bench = TRUE, !.score = @ + 10]
                     ELSE acc
                ELSE acc)

\* the score find_golden_clusters gives an anchor
SpotScore(anchor, parking_spots, comforts) ==
    ComfortLoop(anchor, comforts, 1,
                [score |-> 50 + ParkingBonus(anchor, parking_spots),
                 has_cafe |-> FALSE, has_bench |-> FALSE]).score
    + (IF anchor.name # "" THEN 10 ELSE 0)

\* find_golden_clusters, from the elements the Overpass query returned
find_golden_clusters(elements) ==
    LET anchors == SelectSeq(elements, LAMBDA e : e.kind \in {"viewpoint", "spring"})
        parking_spots == SelectSeq(elements, LAMBDA e : e.kind = "parking")
        comforts == SelectSeq(elements, LAMBDA e : e.kind \in {"cafe", "bench"})
        golden_spots ==
            [i \in 1..Len(anchors) |->
                [id |-> anchors[i].id, name |-> anchors[i].name,
                 score |-> SpotScore(anchors[i], parking_spots, comforts)]]
    IN  FirstFive(SortedDescending(golden_spots))

\* _find_nearest: whether some POI of pois is within max_distance metres
FoundNearest(center, pois, max_distance) ==
    \E i \in 1..Len(pois) : Metres(center, pois[i]) <= max_distance

\* the score _create_golden_clusters gives a viewpoint: 30, 40 more with a
\* coffee within 500 m, 30 more with a parking within 1 km
ClusterScore(vp, coffees, parkings) ==
    30 + (IF FoundNearest(vp, coffees, 500) THEN 40 ELSE 0)
       + (IF FoundNearest(vp, parkings, 1000) THEN 30 ELSE 0)

\* _create_golden_clusters
_create_golden_clusters(pois) ==
    LET viewpoints == SelectSeq(pois, LAMBDA p : p.kind = "viewpoint")
        coffees == SelectSeq(pois, LAMBDA p : p.kind = "cafe")
        parkings == SelectSeq(pois, LAMBDA p : p.kind = "parking")
        clusters ==
            [i \in 1..Len(viewpoints) |->
                [id |-> viewpoints[i].id, name |-> viewpoints[i].name,
                 score |-> ClusterScore(viewpoints[i], coffees, parkings)]]
    IN  SortedDescending(clusters)

NoClusters == [mode |-> 0, clusters |-> <<>>]

ClusterInit ==
    /\ before \in Pools
    /\ response = NoClusters
    /\ pc = "ready"
    /\ trip_data = EmptyTrip(0, 0)
    /\ departure_time = DefaultDeparture
    /\ drive_times = <<>>
    /\ warnings = <<>>
    /\ db_trip = EmptyTrip(0, 0)

\* a call of find_golden_clusters whose query returned the pool
PointLevelCall ==
    /\ pc = "ready"
    /\ response' = [mode |-> 50, clusters |-> find_golden_clusters(before)]
    /\ pc' = "returned"
    /\ UNCHANGED <<trip_data, departure_time, drive_times, warnings, before, db_trip>>

\* a call of _create_golden_clusters on the pool
RouteLevelCall ==
    /\ pc = "ready"
    /\ response' = [mode |-> 30, clusters |-> _create_golden_clusters(before)]
    /\ pc' = "returned"
    /\ UNCHANGED <<trip_data, departure_time, drive_times, warnings, before, db_trip>>

ClusterNext == PointLevelCall \/ RouteLevelCall

ClusterSpec == ClusterInit /\ [][ClusterNext]_vars

\* find_golden_clusters returned
PointLevel == Returned /\ response.mode = 50

\* the place of the pool a returned cluster is built around
AnchorOf(cluster) == before[cluster.id]

\* the pool has a place of the kind within m metres of place a
InRange(a, kind, m) ==
    \E i \in 1..Len(before) : before[i].kind = kind /\ Metres(a, before[i]) <= m

\* the anchors of the pool in a scoring mode
PoolAnchors(mode) ==
    {i \in 1..Len(before) :
        before[i].kind \in (IF mode = 50 THEN {"viewpoint", "spring"} ELSE {"viewpoint"})}

ReturnedIds == {response.clusters[k].id : k \in 1..Len(response.clusters)}

ParkingPart(a) == IF InRange(a, "parking", 400) THEN 20 ELSE 0

NamePart(a) == IF a.name # "" THEN 10 ELSE 0

RefreshmentOnce ==
    PointLevel =>
        \A k \in 1..Len(response.clusters) :
            LET a == AnchorOf(response.clusters[k])
            IN  /\ (InRange(a, "cafe", 200) /\ InRange(a, "bench", 200)) =>
                      response.clusters[k].score = 50 + ParkingPart(a) + 30 + NamePart(a)
                /\ response.clusters[k].score <= 110

\* What the code does with a cafe and a bench in range: both bonuses, 40.
RefreshmentBoth ==
    PointLevel =>
        \A k \in 1..Len(response.clusters) :
            LET a == AnchorOf(response.clusters[k])
            IN  /\ (InRange(a, "cafe", 200) /\ InRange(a, "bench", 200)) =>
                      response.clusters[k].score = 50 + ParkingPart(a) + 40 + NamePart(a)
                /\ response.clusters[k].score <= 120

\* the score of place a of the pool in a scoring mode
ModeScore(mode, a) ==
    IF mode = 50
    THEN SpotScore(a, SelectSeq(before, LAMBDA e : e.kind = "parking"),
                   SelectSeq(before, LAMBDA e : e.kind \in {"cafe", "bench"}))
    ELSE ClusterScore(a, SelectSeq(before, LAMBDA e : e.kind = "cafe"),
                      SelectSeq(before, LAMBDA e : e.kind = "parking"))

\* the returned clusters are in non-increasing score order
NonIncreasing ==
    \A k \in 1..(Len(response.clusters) - 1) :
        response.clusters[k].score >= response.clusters[k + 1].score

\* the returned clusters are the highest-scoring anchors of the pool, five of
\* them when the pool has five or more
TopFive ==
    /\ Len(response.clusters) = Min(5, Cardinality(PoolAnchors(response.mode)))
    /\ Cardinality(ReturnedIds) = Len(response.clusters)
    /\ ReturnedIds \subseteq PoolAnchors(response.mode)
    /\ \A i \in PoolAnchors(response.mode) \ ReturnedIds :
          \A k \in 1..Len(response.clusters) :
              response.clusters[k].score >= ModeScore(response.mode, before[i])

\* C15: in both scoring modes the returned clusters are in non-increasing score
\* order, at most 5, and the 5 highest-scoring anchors of the pool.
ClusterOrderAndLimit ==
    Returned => (NonIncreasing /\ Len(response.clusters) <= 5 /\ TopFive)

\* The same for the base-50 mode alone.
ClusterOrderAndLimitPointLevel ==
    PointLevel => (NonIncreasing /\ Len(response.clusters) <= 5 /\ TopFive)

\* The base-30 mode sorts, and returns every viewpoint of the pool.
ClusterOrderRouteLevel ==
    (Returned /\ response.mode = 30) =>
        /\ NonIncreasing
        /\ ReturnedIds = PoolAnchors(30)
        /\ Len(response.clusters) = Cardinality(PoolAnchors(30))

(***************************************************************************)
(* MesoSpec: _calculate_meso_count of the trip planner, and                *)
(* interpolate_along_route and find_meso_points of utils/geo.py, on the    *)
(* bounded input sets.                                                     *)
(*                                                                         *)
(* A route runs along the meridian grid, so the haversine distance of a    *)
(* segment is 10000 m times the difference of its end points.  A fraction  *)
(* is the exact rational num / den, and a coordinate the code computes is  *)
(* the exact rational [num, den] in grid units.                            *)
(***************************************************************************)
MaxRoutePoints == 3
MaxCount == 3

\* route vertices: unevenly spaced, so that distance and index differ
RoutePoints == {0, 1, 4}

Routes == UNION {[1..n -> RoutePoints] : n \in 0..MaxRoutePoints}

\* the fractions interpolate_along_route is called with
Fractions ==
    { <<0, 1>>, <<1, 1>>, <<1, 2>>, <<1, 3>>, <<2, 3>>, <<1, 4>>, <<3, 4>>,
      <<0 - 1, 2>>, <<3, 2>> }

\* route distances in metres: every 5 km up to 320 km
RouteDistances == {5000 * k : k \in 0..64}

\* haversine_distance of utils/geo.py on the meridian grid, in metres
haversine_distance(coord1, coord2) == 10000 * Abs(coord2 - coord1)

\* _calculate_meso_count: int(distance_km / 30) clamped to 2..8
_calculate_meso_count(distance_meters) ==
    LET count == distance_meters \div 30000
    IN  IF count < 2 THEN 2 ELSE IF count > 8 THEN 8 ELSE count

\* a coordinate as a rational number of grid units
Point(num, den) == [r |-> "ok", num |-> num, den |-> den]

ValueError == [r |-> "ValueError", num |-> 0, den |-> 1]

\* total_dist of interpolate_along_route over the segments from i on
RECURSIVE TotalDist(_, _)
TotalDist(route_coords, i) ==
    IF i >= Len(route_coords) THEN 0
    ELSE haversine_distance(route_coords[i], route_coords[i + 1])
         + TotalDist(route_coords, i + 1)

\* the second loop of interpolate_along_route from segment i on; the target
\* distance is target_num / den metres
RECURSIVE SegmentLoop(_, _, _, _, _)
SegmentLoop(route_coords, i, cumulative, target_num, den) ==
    IF i >= Len(route_coords) THEN Point(route_coords[Len(route_coords)] * den, den)
    ELSE LET seg_dist == haversine_distance(route_coords[i], route_coords[i + 1])
             start == route_coords[i]
             end == route_coords[i + 1]
         IN  IF (cumulative + seg_dist) * den >= target_num
             THEN IF seg_dist > 0
                  THEN Point(start * den
                             + ((end - start) * (target_num - cumulative * den))
                                  \div seg_dist,
                             den)
                  ELSE Point(start * den, den)
             ELSE SegmentLoop(route_coords, i + 1, cumulative + seg_dist,
                              target_num, den)

\* the slip of interpolating by vertex index instead of by distance
InterpolateByIndex(route_coords, num, den) ==
    IF route_coords = <<>> THEN ValueError
    ELSE IF num <= 0 THEN Point(route_coords[1] * den, den)
    ELSE IF num >= den THEN Point(route_coords[Len(route_coords)] * den, den)
    ELSE IF Len(route_coords) = 1 THEN Point(route_coords[1] * den, den)
    ELSE LET pos == (Len(route_coords) - 1) * num
             i == 1 + pos \div den
         IN  Point(route_coords[i] * den
                   + (route_coords[i + 1] - route_coords[i]) * (pos % den), den)

\* interpolate_along_route(route_coords, num / den)
interpolate_along_route(route_coords, num, den) ==
    IF route_coords = <<>> THEN ValueError
    ELSE IF num <= 0 THEN Point(route_coords[1] * den, den)
    ELSE IF num >= den THEN Point(route_coords[Len(route_coords)] * den, den)
    ELSE SegmentLoop(route_coords, 1, 0, TotalDist(route_coords, 1) * num, den)

\* the slip of spacing the samples at i / count
FindMesoPointsToEnd(route_coords, count) ==
    IF count <= 0 THEN [raised |-> FALSE, points |-> <<>>]
    ELSE IF route_coords = <<>> THEN [raised |-> TRUE, points |-> <<>>]
    ELSE [raised |-> FALSE,
          points |-> [i \in 1..count |->
                        interpolate_along_route(route_coords, i, count)]]

\* find_meso_points: a raise of interpolate_along_route ends the loop
find_meso_points(route_coords, count) ==
    IF count <= 0 THEN [raised |-> FALSE, points |-> <<>>]
    ELSE IF route_coords = <<>> THEN [raised |-> TRUE, points |-> <<>>]
    ELSE [raised |-> FALSE,
          points |-> [i \in 1..count |->
                        interpolate_along_route(route_coords, i, count + 1)]]

MesoRequests ==
    [op : {"count"}, distance_meters : RouteDistances]
    \cup [op : {"meso"}, route_coords : Routes, count : 0..MaxCount]
    \cup [op : {"interpolate"}, route_coords : Routes, fraction : Fractions]

MesoInit ==
    /\ before \in MesoRequests
    /\ response = <<>>
    /\ pc = "ready"
    /\ trip_data = EmptyTrip(0, 0)
    /\ departure_time = DefaultDeparture
    /\ drive_times = <<>>
    /\ warnings = <<>>
    /\ db_trip = EmptyTrip(0, 0)

\* the end of a call: it returned r, or raised
Answer(r, raised) ==
    /\ response' = r
    /\ pc' = IF raised THEN "raised" ELSE "returned"
    /\ UNCHANGED <<trip_data, departure_time, drive_times, warnings, before, db_trip>>

CountCall ==
    /\ pc = "ready"
    /\ before.op = "count"
    /\ Answer(_calculate_meso_count(before.distance_meters), FALSE)

MesoCall ==
    /\ pc = "ready"
    /\ before.op = "meso"
    /\ \E r \in {find_meso_points(before.route_coords, before.count)} :
          Answer(r.points, r.raised)

InterpolateCall ==
    /\ pc = "ready"
    /\ before.op = "interpolate"
    /\ \E r \in {interpolate_along_route(before.route_coords,
                                         before.fraction[1], before.fraction[2])} :
          Answer(r, r.r = "ValueError")

MesoNext == CountCall \/ MesoCall \/ InterpolateCall

MesoSpec == MesoInit /\ [][MesoNext]_vars

\* round(n / d) for n >= 0 and d > 0, halves going to the even neighbour as
\* Python's round does
Round(n, d) ==
    LET q == n \div d
        r2 == 2 * (n % d)
    IN  IF r2 < d THEN q
        ELSE IF r2 > d THEN q + 1
        ELSE IF q % 2 = 0 THEN q ELSE q + 1

Clamp(x, lo, hi) == IF x < lo THEN lo ELSE IF x > hi THEN hi ELSE x

CountReturned == Returned /\ before.op = "count"

\* what is claimed of the count beside its formula: 2, 3 and 8 at 20, 90 and
\* 300 km, never below 2 or above 8, and non-decreasing in the distance
CountShape ==
    /\ before.distance_meters = 20000 => response = 2
    /\ before.distance_meters = 90000 => response = 3
    /\ before.distance_meters = 300000 => response = 8
    /\ response >= 2 /\ response <= 8
    /\ \A d \in RouteDistances :
          d <= before.distance_meters => _calculate_meso_count(d) <= response

\* C16: the number of meso-points is clamp(round(distanceKm / 30), 2, 8); it is
\* 2, 3 and 8 for 20, 90 and 300 km, never below 2 or above 8, and
\* non-decreasing in the distance.
MesoCount ==
    CountReturned =>
        /\ response = Clamp(Round(before.distance_meters, 30000), 2, 8)
        /\ CountShape

\* What the code computes: the quotient is truncated, not rounded.
MesoCountTruncated ==
    CountReturned =>
        /\ response = Clamp(before.distance_meters \div 30000, 2, 8)
        /\ CountShape

\* metres along the route from its first vertex to vertex k
RECURSIVE CumDist(_, _)
CumDist(route, k) ==
    IF k = 1 THEN 0
    ELSE CumDist(route, k - 1) + haversine_distance(route[k - 1], route[k])

Sgn(x) == IF x > 0 THEN 1 ELSE IF x < 0 THEN 0 - 1 ELSE 0

\* p is the point of the route at target_num / den metres from its start: it
\* lies on a segment that contains that distance, that far along it
AtDistance(p, route, target_num, den) ==
    /\ p.r = "ok"
    /\ IF Len(route) = 1 THEN p.num = route[1] * p.den
       ELSE \E k \in 1..(Len(route) - 1) :
               /\ CumDist(route, k) * den <= target_num
               /\ target_num <= CumDist(route, k + 1) * den
               /\ p.num * 10000 * den =
                     p.den * (route[k] * 10000 * den
                              + Sgn(route[k + 1] - route[k])
                                   * (target_num - CumDist(route, k) * den))

\* the route runs one way and has a positive length
OneWay(route) ==
    /\ \A k \in 1..(Len(route) - 1) : route[k] <= route[k + 1]
    /\ route[1] < route[Len(route)]

\* C17: for a non-empty polyline and count n >= 0, find_meso_points returns
\* exactly n points, the i-th being the point at fraction i / (n + 1) of the
\* route's cumulative distance, so that on a route of positive length the points
\* follow one another along the route strictly between its end points; n = 0
\* returns an empty list without an error.
MesoSampling ==
    before.op = "meso" =>
        LET route == before.route_coords
            n == before.count
        IN  /\ (route # <<>> \/ n = 0) => pc # "raised"
            /\ (Returned /\ n = 0) => response = <<>>
            /\ (Returned /\ route # <<>>) =>
                  /\ Len(response) = n
                  /\ \A i \in 1..n :
                        AtDistance(response[i], route,
                                   CumDist(route, Len(route)) * i, n + 1)
                  /\ OneWay(route) =>
                        /\ \A i \in 1..n :
                              /\ route[1] * response[i].den < response[i].num
                              /\ response[i].num < route[Len(route)] * response[i].den
                        /\ \A i \in 1..(n - 1) : response[i].num < response[i + 1].num

\* find_meso_points returned two or more points of a one-way route of three
\* vertices whose segments differ in length
MesoSamplingWitness ==
    /\ Returned
    /\ before.op = "meso"
    /\ before.count >= 2
    /\ Len(before.route_coords) = 3
    /\ OneWay(before.route_coords)
    /\ before.route_coords[2] - before.route_coords[1]
          # before.route_coords[3] - before.route_coords[2]
    /\ Len(response) = before.count

\* C18: on a non-empty polyline interpolate_along_route returns the first point
\* at fraction 0, the last point at fraction 1, and for a fraction in between a
\* point on the segment that contains fraction * totalDistance, that far along
\* the route; on an empty polyline it raises for every fraction.
InterpolationEndpoints ==
    before.op = "interpolate" =>
        LET route == before.route_coords
            num == before.fraction[1]
            den == before.fraction[2]
        IN  /\ pc = "raised" <=> (pc # "ready" /\ route = <<>>)
            /\ Returned =>
                  /\ response.r = "ok"
                  /\ num = 0 => response.num = route[1] * response.den
                  /\ num = den => response.num = route[Len(route)] * response.den
                  /\ (0 < num /\ num < den) =>
                        AtDistance(response, route,
                                   CumDist(route, Len(route)) * num, den)

\* interpolate_along_route returned the point half way along a route whose
\* middle vertex is not half way
InterpolationWitness ==
    /\ Returned
    /\ before.op = "interpolate"
    /\ before.route_coords = <<0, 1, 4>>
    /\ before.fraction = <<1, 2>>
    /\ response = Point(4, 2)

(***************************************************************************)
(* GemsSpec: TripPlannerService._find_micro_gems, one step per meso-point: *)
(* the awaited search_near answers with some list of POIs, and the inner   *)
(* loop merges it into all_pois.                                           *)
(*                                                                         *)
(* before.results keeps what each query answered; response is all_pois in  *)
(* insertion order (a dict keeps it), which is also the list returned.     *)
(* The tags of a POI are the set of its key=value pairs.                   *)
(***************************************************************************)
MaxMeso == 2

\* meso_points: up to MaxMeso points of the grid, one after the other
MesoPointLists == {[i \in 1..n |-> i - 1] : n \in 0..MaxMeso}

OsmIds == {1001, 1002}

TagSets == { {}, {"tourism=viewpoint"}, {"tourism=viewpoint", "name=Same POI"} }

\* a POI as search_near builds it: the place 1001 lies at point 0, 1002 at 1
MakePoi(osm_id, tags) ==
    [osm_id |-> osm_id, tags |-> tags, coordinates |-> osm_id - 1001,
     distance_from_route_km |-> 0 - 1]

\* what one search_near call can answer: no, one or two POIs
QueryResults ==
    UNION {[1..n -> {MakePoi(id, tags) : id \in OsmIds, tags \in TagSets}] :
              n \in 0..2}

\* poi.osm_id not in all_pois
InPool(all_pois, osm_id) == \E k \in 1..Len(all_pois) : all_pois[k].osm_id = osm_id

\* the slip of letting a later duplicate replace the POI in the pool
MergeOneLastWins(all_pois, meso, poi) ==
    LET seen == [poi EXCEPT !.distance_from_route_km =
                     haversine_distance(meso, poi.coordinates) \div 1000]
    IN  IF InPool(all_pois, poi.osm_id)
        THEN [k \in 1..Len(all_pois) |->
                 IF all_pois[k].osm_id = poi.osm_id THEN seen ELSE all_pois[k]]
        ELSE Append(all_pois, seen)

\* merging the tags of a later duplicate into the POI in the pool
MergeOneUnitingTags(all_pois, meso, poi) ==
    IF InPool(all_pois, poi.osm_id)
    THEN [k \in 1..Len(all_pois) |->
             IF all_pois[k].osm_id = poi.osm_id
             THEN [all_pois[k] EXCEPT !.tags = @ \cup poi.tags]
             ELSE all_pois[k]]
    ELSE Append(all_pois,
                [poi EXCEPT !.distance_from_route_km =
                    haversine_distance(meso, poi.coordinates) \div 1000])

\* the body of the inner loop of _find_micro_gems
MergeOne(all_pois, meso, poi) ==
    IF InPool(all_pois, poi.osm_id)
    THEN all_pois
    ELSE Append(all_pois,
                [poi EXCEPT !.distance_from_route_km =
                    haversine_distance(meso, poi.coordinates) \div 1000])

\* the inner loop of _find_micro_gems over pois from index j on
RECURSIVE MergeResult(_, _, _, _)
MergeResult(all_pois, meso, pois, j) ==
    IF j > Len(pois) THEN all_pois
    ELSE MergeResult(MergeOne(all_pois, meso, pois[j]), meso, pois, j + 1)

GemsInit ==
    /\ \E meso_points \in MesoPointLists :
          before = [meso_points |-> meso_points, results |-> <<>>]
    /\ response = <<>>
    /\ pc = "ready"
    /\ trip_data = EmptyTrip(0, 0)
    /\ departure_time = DefaultDeparture
    /\ drive_times = <<>>
    /\ warnings = <<>>
    /\ db_trip = EmptyTrip(0, 0)

\* one turn of the outer loop: search_near answers pois for the next meso-point
SearchNear ==
    /\ pc = "ready"
    /\ Len(before.results) < Len(before.meso_points)
    /\ \E pois \in QueryResults :
          /\ response' = MergeResult(response,
                                     before.meso_points[Len(before.results) + 1],
                                     pois, 1)
          /\ before' = [before EXCEPT !.results = Append(@, pois)]
    /\ UNCHANGED <<trip_data, departure_time, drive_times, warnings, pc, db_trip>>

\* return list(all_pois.values())
ReturnGems ==
    /\ pc = "ready"
    /\ Len(before.results) = Len(before.meso_points)
    /\ pc' = "returned"
    /\ UNCHANGED <<trip_data, departure_time, drive_times, warnings, before,
                   db_trip, response>>

GemsNext == SearchNear \/ ReturnGems

GemsSpec == GemsInit /\ [][GemsNext]_vars

\* the (query, index) pairs at which a POI of the id was answered
Sightings(osm_id) ==
    {qj \in (1..Len(before.results)) \X (1..2) :
        /\ qj[2] <= Len(before.results[qj[1]])
        /\ before.results[qj[1]][qj[2]].osm_id = osm_id}

\* the first of them in query order
FirstSighting(osm_id) ==
    CHOOSE qj \in Sightings(osm_id) :
        \A o \in Sightings(osm_id) :
            qj[1] < o[1] \/ (qj[1] = o[1] /\ qj[2] <= o[2])

SightedPoi(qj) == before.results[qj[1]][qj[2]]

\* the POI of the pool with the id
Pooled(osm_id) == response[CHOOSE k \in 1..Len(response) : response[k].osm_id = osm_id]

\* C19: the merged pool holds exactly one POI per osm_id that occurs in any
\* query result, and it is the instance first seen in query order, with its
\* distance from the meso-point of that query.
DedupFirstSeen ==
    /\ \A k, l \in 1..Len(response) :
          response[k].osm_id = response[l].osm_id => k = l
    /\ \A id \in OsmIds : InPool(response, id) <=> Sightings(id) # {}
    /\ \A id \in OsmIds :
          Sightings(id) # {} =>
              LET qj == FirstSighting(id)
              IN  Pooled(id) =
                     [SightedPoi(qj) EXCEPT !.distance_from_route_km =
                         haversine_distance(before.meso_points[qj[1]],
                                            SightedPoi(qj).coordinates) \div 1000]

\* _find_micro_gems returned after two queries answered the same place with
\* different tags
DedupWitness ==
    /\ Returned
    /\ \E id \in OsmIds : \E a, b \in Sightings(id) :
          /\ a[1] < b[1]
          /\ SightedPoi(a).tags # SightedPoi(b).tags

\* C20: the POI kept for an id has the richer tag set: the tags of every
\* duplicate answered for the id, the later ones included, are among its tags.
RicherTagsKept ==
    \A id \in OsmIds : \A qj \in Sightings(id) :
        SightedPoi(qj).tags \subseteq Pooled(id).tags

\* C20 as amended: the POI kept for an id has the tag set of the first-seen
\* duplicate, so a tag that only a later duplicate carries is not in the pool.
FirstSeenTagsKept ==
    \A id \in OsmIds :
        Sightings(id) # {} =>
            /\ Pooled(id).tags = SightedPoi(FirstSighting(id)).tags
            /\ \A qj \in Sightings(id) :
                  \A tag \in SightedPoi(qj).tags \ SightedPoi(FirstSighting(id)).tags :
                      tag \notin Pooled(id).tags

\* _find_micro_gems returned after a later query answered a place with a tag
\* the first-seen duplicate lacks
FirstSeenTagsWitness ==
    /\ Returned
    /\ \E id \in OsmIds : \E qj \in Sightings(id) :
          /\ qj[1] > FirstSighting(id)[1]
          /\ SightedPoi(qj).tags \ SightedPoi(FirstSighting(id)).tags # {}

(***************************************************************************)
(* PlanSpec: the planning entry points.  TripPlannerService.plan_trip      *)
(* (backend) awaits the route, then one search_near per meso-point, then   *)
(* builds the clusters; the two plan endpoints of api/index.py run         *)
(* get_osrm_route, find_route_midpoint and find_golden_clusters in one     *)
(* synchronous handler.                                                    *)
(*                                                                         *)
(* before.entry is the entry point called, before.route what the route     *)
(* provider answers, before.results what the POI source answered to each   *)
(* query so far.  response is the draft under construction: micro_stops is *)
(* all_pois while the queries run.  pc = "searching" between the queries.  *)
(***************************************************************************)
EntryPoints == {"plan_trip", "index_plan_trip", "index_plan_trip_frontend"}

\* what the OSRM request can end in: a transport or status error, an answer
\* whose code is not "Ok" or that lists no route, or a route
RouteAnswers ==
    { [kind |-> "http_error", geometry |-> <<>>, distance |-> 0, duration |-> 0],
      [kind |-> "not_ok", geometry |-> <<>>, distance |-> 0, duration |-> 0],
      [kind |-> "ok", geometry |-> <<>>, distance |-> 0, duration |-> 0],
      [kind |-> "ok", geometry |-> <<0, 3>>, distance |-> 60000, duration |-> 3600],
      [kind |-> "ok", geometry |-> <<0, 4>>, distance |-> 90000, duration |-> 5400] }

\* what one Overpass request of search_near can end in: httpx.HTTPError (a
\* transport error, a timeout, an error status), a body that is no JSON, or
\* elements that convert to the POIs pois
PoiAnswers ==
    { [kind |-> "http_error", pois |-> <<>>], [kind |-> "json_error", pois |-> <<>>] }
    \cup {[kind |-> "ok", pois |-> pois] :
             pois \in {r \in QueryResults : \A k \in 1..Len(r) : r[k].tags # {}}}

\* what the Overpass request of api/index.py find_golden_clusters can end in
IndexPoiAnswers ==
    { [kind |-> "http_error", elements |-> <<>>] }
    \cup {[kind |-> "ok", elements |-> MakePool(sh, am)] :
             sh \in UNION {[1..n -> RankingAnchorShapes] : n \in 0..1},
             am \in { <<>>, << <<"parking", 4>> >> }}

EmptyPlan ==
    [macro_route |-> [polyline |-> <<>>, distance_meters |-> 0, duration_seconds |-> 0],
     meso_points |-> <<>>, micro_stops |-> <<>>, golden_clusters |-> <<>>]

\* RoutingService.get_route: None (found = FALSE) or a Route
get_route(answer) ==
    IF answer.kind # "ok"
    THEN [found |-> FALSE, polyline |-> <<>>, distance_meters |-> 0,
          duration_seconds |-> 0]
    ELSE [found |-> TRUE, polyline |-> answer.geometry,
          distance_meters |-> answer.distance, duration_seconds |-> answer.duration]

\* api/index.py get_osrm_route: the route, or the status of the HTTPException
get_osrm_route(answer) ==
    IF answer.kind = "http_error"
    THEN [raised |-> 502, geometry |-> <<>>, distance_m |-> 0, duration_sec |-> 0]
    ELSE IF answer.kind = "not_ok"
    THEN [raised |-> 400, geometry |-> <<>>, distance_m |-> 0, duration_sec |-> 0]
    ELSE [raised |-> 0, geometry |-> answer.geometry, distance_m |-> answer.distance,
          duration_sec |-> answer.duration]

\* api/index.py find_route_midpoint: the point half way, or HTTPException 400
find_route_midpoint(geometry) ==
    IF geometry = <<>>
    THEN [raised |-> 400, point |-> ValueError]
    ELSE [raised |-> 0, point |-> interpolate_along_route(geometry, 1, 2)]

\* search_near letting the failure of its request out
SearchNearRaising(answer) ==
    IF answer.kind \in {"http_error", "json_error"}
    THEN [raised |-> TRUE, pois |-> <<>>]
    ELSE [raised |-> FALSE, pois |-> SubSeq(answer.pois, 1, Min(10, Len(answer.pois)))]

\* POIService.search_near with limit = 10
search_near(answer) ==
    IF answer.kind \in {"http_error", "json_error"}
    THEN [raised |-> FALSE, pois |-> <<>>]
    ELSE [raised |-> FALSE, pois |-> SubSeq(answer.pois, 1, Min(10, Len(answer.pois)))]

\* the grid point of a meso-point (the routes drawn put them on grid points)
GridPoint(p) == p.num \div p.den

\* a POI as _create_golden_clusters reads it: its type and its place in 100 m
PoiPlace(poi) ==
    [id |-> poi.osm_id, pos |-> 100 * poi.coordinates,
     kind |-> IF "tourism=viewpoint" \in poi.tags THEN "viewpoint" ELSE "custom",
     name |-> IF "name=Same POI" \in poi.tags THEN "Same POI" ELSE ""]

\* api/index.py find_golden_clusters around its Overpass request
IndexGoldenClusters(answer) ==
    IF answer.kind # "ok" THEN <<>> ELSE find_golden_clusters(answer.elements)

PlanInit ==
    /\ \E entry \in EntryPoints : \E route \in RouteAnswers :
          before = [entry |-> entry, route |-> route, results |-> <<>>]
    /\ response = EmptyPlan
    /\ pc = "ready"
    /\ trip_data = EmptyTrip(0, 0)
    /\ departure_time = DefaultDeparture
    /\ drive_times = <<>>
    /\ warnings = <<>>
    /\ db_trip = EmptyTrip(0, 0)

\* plan_trip up to the first search_near: MACRO and MESO
GetMacroRoute ==
    /\ pc = "ready"
    /\ before.entry = "plan_trip"
    /\ \E route \in {get_route(before.route)} :
          IF ~route.found \/ route.polyline = <<>>
          THEN /\ response' = EmptyPlan
               /\ pc' = "returned"
          ELSE \E meso \in {find_meso_points(route.polyline,
                               _calculate_meso_count(route.distance_meters))} :
                  /\ response' =
                        [macro_route |-> [polyline |-> route.polyline,
                                          distance_meters |-> route.distance_meters,
                                          duration_seconds |-> route.duration_seconds],
                         meso_points |-> meso.points,
                         micro_stops |-> <<>>, golden_clusters |-> <<>>]
                  /\ pc' = "searching"
    /\ UNCHANGED <<trip_data, departure_time, drive_times, warnings, before, db_trip>>

\* one turn of the loop of _find_micro_gems: the awaited search_near and the
\* merge of what it returns
FindMicroGems ==
    /\ pc = "searching"
    /\ Len(before.results) < Len(response.meso_points)
    /\ \E answer \in PoiAnswers : \E found \in {search_near(answer)} :
          /\ before' = [before EXCEPT !.results = Append(@, answer)]
          /\ IF found.raised
             THEN /\ pc' = "raised"
                  /\ UNCHANGED response
             ELSE /\ response' =
                        [response EXCEPT !.micro_stops =
                            MergeResult(@,
                                GridPoint(response.meso_points[Len(before.results) + 1]),
                                found.pois, 1)]
                  /\ UNCHANGED pc
    /\ UNCHANGED <<trip_data, departure_time, drive_times, warnings, db_trip>>

\* CLUSTER and the return of plan_trip
ReturnPlan ==
    /\ pc = "searching"
    /\ Len(before.results) = Len(response.meso_points)
    /\ response' =
          [response EXCEPT !.golden_clusters =
              _create_golden_clusters(
                  [k \in 1..Len(response.micro_stops) |->
                      PoiPlace(response.micro_stops[k])])]
    /\ pc' = "returned"
    /\ UNCHANGED <<trip_data, departure_time, drive_times, warnings, before, db_trip>>

\* POST /api/plan_trip and POST /api/trips/plan of api/index.py
IndexPlanTrip ==
    /\ pc = "ready"
    /\ before.entry \in {"index_plan_trip", "index_plan_trip_frontend"}
    /\ \E route_data \in {get_osrm_route(before.route)} :
       \E midpoint \in {find_route_midpoint(route_data.geometry)} :
          IF route_data.raised # 0 \/ midpoint.raised # 0
          THEN /\ pc' = "raised"
               /\ UNCHANGED <<before, response>>
          ELSE \E answer \in IndexPoiAnswers :
               \E golden_spots \in {IndexGoldenClusters(answer)} :
                  /\ before' = [before EXCEPT !.results = <<answer>>]
                  /\ response' =
                        [macro_route |-> [polyline |-> route_data.geometry,
                                          distance_meters |-> route_data.distance_m,
                                          duration_seconds |-> route_data.duration_sec],
                         meso_points |-> <<midpoint.point>>,
                         micro_stops |-> golden_spots,
                         golden_clusters |-> golden_spots]
                  /\ pc' = "returned"
    /\ UNCHANGED <<trip_data, departure_time, drive_times, warnings, db_trip>>

PlanNext == GetMacroRoute \/ FindMicroGems \/ ReturnPlan \/ IndexPlanTrip

PlanSpec == PlanInit /\ [][PlanNext]_vars

\* the route provider failed, found nothing or answered an empty polyline
RoutingFailed == before.route.kind # "ok" \/ before.route.geometry = <<>>

\* the queries that succeeded
Succeeded == {q \in 1..Len(before.results) : before.results[q].kind = "ok"}

\* the POIs the queries that succeeded answered
AnsweredPois ==
    UNION {{before.results[q].pois[j] : j \in 1..Len(before.results[q].pois)} :
              q \in Succeeded}

PoolIds == {response.micro_stops[k].osm_id : k \in 1..Len(response.micro_stops)}

\* C21: plan_trip never raises because of a failing query; when it returns
\* after a usable route, every meso-point was queried, and the pool holds each
\* osm_id answered by a query that succeeded exactly once, with the tags of an
\* answered POI of that id, and nothing else
FailureIsolation ==
    before.entry = "plan_trip" =>
        /\ pc # "raised"
        /\ (Returned /\ ~RoutingFailed) =>
              /\ Len(before.results) = _calculate_meso_count(before.route.distance)
              /\ PoolIds = {p.osm_id : p \in AnsweredPois}
              /\ \A k, l \in 1..Len(response.micro_stops) :
                    response.micro_stops[k].osm_id = response.micro_stops[l].osm_id
                        => k = l
              /\ \A k \in 1..Len(response.micro_stops) :
                    \E p \in AnsweredPois :
                        /\ p.osm_id = response.micro_stops[k].osm_id
                        /\ p.tags = response.micro_stops[k].tags

\* the first query failed, the second answered a POI, the third failed
FailureIsolationWitness ==
    /\ Returned
    /\ before.entry = "plan_trip"
    /\ Len(before.results) = 3
    /\ before.results[1].kind = "http_error"
    /\ before.results[2].kind = "ok"
    /\ before.results[3].kind = "json_error"
    /\ PoolIds = {1002}

\* C22: when the route provider fails, finds nothing or answers an empty
\* polyline, every entry point returns the empty draft and issues no POI query
RoutingFailureGivesEmptyPlan ==
    (RoutingFailed /\ pc # "ready") =>
        /\ Returned
        /\ response = EmptyPlan
        /\ before.results = <<>>

\* the same for TripPlannerService.plan_trip alone
RoutingFailureGivesEmptyPlanBackend ==
    (before.entry = "plan_trip" /\ RoutingFailed /\ pc # "ready") =>
        /\ Returned
        /\ response = EmptyPlan
        /\ before.results = <<>>

(***************************************************************************)
(* ElementSpec: what the two POI readers make of the elements of an        *)
(* Overpass answer.  POIService.search_near (backend) converts each        *)
(* element with _element_to_poi; find_golden_clusters (api/index.py)       *)
(* collects the elements it can place.                                     *)
(*                                                                         *)
(* A key of an element that may be absent is the record [given, v].  The   *)
(* elements drawn are unnamed viewpoints, so find_golden_clusters scores   *)
(* each one it keeps 50.  before is the call, response the list returned.  *)
(***************************************************************************)
MaxElements == 2

Missing == [given |-> FALSE, v |-> 0]

Given(v) == [given |-> TRUE, v |-> v]

\* element i of an answer: lat and lon of a node, center of a way
ElementShapes ==
    [lat : {Missing, Given(0), Given(32)},
     lon : {Missing, Given(0), Given(35)},
     center : {[lat |-> Missing, lon |-> Missing],
               [lat |-> Given(32), lon |-> Given(35)]}]

MakeElement(i, sh) ==
    [id |-> 1000 + i, lat |-> sh.lat, lon |-> sh.lon, center |-> sh.center]

ElementLists ==
    UNION {{[i \in 1..n |-> MakeElement(i, shapes[i])] :
               shapes \in [1..n -> ElementShapes]} : n \in 0..MaxElements}

\* element.get(key, 0)
GetOrZero(c) == IF c.given THEN c.v ELSE 0

\* Python truthiness of el.get(key): absent (None) and 0 are falsy
TruthyNumber(c) == c.given /\ c.v # 0

\* el.get(key) or el.get("center", {}).get(key)
GetOrCenter(c, centre) == IF TruthyNumber(c) THEN c ELSE centre

\* POIService._element_to_poi: the POI, as a list of one (None is no list)
_element_to_poi(element) ==
    << [osm_id |-> element.id,
        coordinates |-> [lat |-> GetOrZero(element.lat),
                         lon |-> GetOrZero(element.lon)]] >>

\* the loop of search_near over data["elements"] from index i on
RECURSIVE ConvertLoop(_, _)
ConvertLoop(elements, i) ==
    IF i > Len(elements) THEN <<>>
    ELSE _element_to_poi(elements[i]) \o ConvertLoop(elements, i + 1)

\* the first loop of find_golden_clusters from index i on: the anchors kept
RECURSIVE CollectLoop(_, _)
CollectLoop(elements, i) ==
    IF i > Len(elements) THEN <<>>
    ELSE LET el == elements[i]
             lat == GetOrCenter(el.lat, el.center.lat)
             lon == GetOrCenter(el.lon, el.center.lon)
         IN  IF ~TruthyNumber(lat) \/ ~TruthyNumber(lon)
             THEN CollectLoop(elements, i + 1)
             ELSE << [osm_id |-> el.id,
                      coordinates |-> [lat |-> lat.v, lon |-> lon.v],
                      score |-> 50] >>
                  \o CollectLoop(elements, i + 1)

ElementInit ==
    /\ \E reader \in {"search_near", "find_golden_clusters"} :
       \E elements \in ElementLists :
          before = [reader |-> reader, elements |-> elements]
    /\ response = <<>>
    /\ pc = "ready"
    /\ trip_data = EmptyTrip(0, 0)
    /\ departure_time = DefaultDeparture
    /\ drive_times = <<>>
    /\ warnings = <<>>
    /\ db_trip = EmptyTrip(0, 0)

\* search_near on an answer that decodes: pois[:limit]
ConvertElements ==
    /\ pc = "ready"
    /\ before.reader = "search_near"
    /\ \E pois \in {ConvertLoop(before.elements, 1)} :
          response' = SubSeq(pois, 1, Min(10, Len(pois)))
    /\ pc' = "returned"
    /\ UNCHANGED <<trip_data, departure_time, drive_times, warnings, before, db_trip>>

\* find_golden_clusters on an answer that decodes: golden_spots[:5]
CollectElements ==
    /\ pc = "ready"
    /\ before.reader = "find_golden_clusters"
    /\ response' = FirstFive(SortedDescending(CollectLoop(before.elements, 1)))
    /\ pc' = "returned"
    /\ UNCHANGED <<trip_data, departure_time, drive_times, warnings, before, db_trip>>

ElementNext == ConvertElements \/ CollectElements

ElementSpec == ElementInit /\ [][ElementNext]_vars

\* the element has no latitude or no longitude, on itself or on a center
NoCoordinate(el) ==
    \/ ~el.lat.given /\ ~el.center.lat.given
    \/ ~el.lon.given /\ ~el.center.lon.given

\* the element carries a latitude and a longitude of its own
OwnCoordinate(el) == el.lat.given /\ el.lon.given

\* the element is in the list returned, at the coordinate lat, lon
ReturnedAt(el, lat, lon) ==
    \E k \in 1..Len(response) :
        /\ response[k].osm_id = el.id
        /\ response[k].coordinates = [lat |-> lat, lon |-> lon]

IsReturned(el) == \E k \in 1..Len(response) : response[k].osm_id = el.id

\* C23: an element with no latitude or no longitude is not in the list
\* returned, and an element with a latitude and a longitude of its own, 0
\* included, is in it at that coordinate
CoordinatesResolved ==
    Returned =>
        \A i \in 1..Len(before.elements) :
            /\ NoCoordinate(before.elements[i]) => ~IsReturned(before.elements[i])
            /\ OwnCoordinate(before.elements[i]) =>
                  ReturnedAt(before.elements[i], before.elements[i].lat.v,
                             before.elements[i].lon.v)

\* what holds of search_near: every element with its own coordinate is kept
OwnCoordinateKeptBySearchNear ==
    (Returned /\ before.reader = "search_near") =>
        \A i \in 1..Len(before.elements) :
            OwnCoordinate(before.elements[i]) =>
                ReturnedAt(before.elements[i], before.elements[i].lat.v,
                           before.elements[i].lon.v)

\* what holds of find_golden_clusters: no element without coordinate is kept
NoCoordinateDroppedByIndex ==
    (Returned /\ before.reader = "find_golden_clusters") =>
        \A i \in 1..Len(before.elements) :
            NoCoordinate(before.elements[i]) => ~IsReturned(before.elements[i])

(***************************************************************************)
(* The trip the caller of solve() holds, after the call.                   *)
(***************************************************************************)
\* the forward pass of the last call
LastForwardPass ==
    _forward_pass(drive_times, departure_time, before, _find_anchors(before.stops))

\* C24: after solve() has returned or raised, the trip's stops and its
\* estimated_arrival are both as they were before the call or both as the
\* forward pass of the call computed them
SolveAtomic ==
    pc \in {"returned", "raised"} =>
        \/ /\ trip_data.stops = before.stops
           /\ trip_data.estimated_arrival = before.estimated_arrival
        \/ /\ ~LastForwardPass.raised
           /\ trip_data.stops = LastForwardPass.updated_stops
           /\ trip_data.estimated_arrival = LastForwardPass.estimated_arrival

\* the same after a normal return only
SolveAtomicOnReturn ==
    Returned =>
        \/ /\ trip_data.stops = before.stops
           /\ trip_data.estimated_arrival = before.estimated_arrival
        \/ /\ ~LastForwardPass.raised
           /\ trip_data.stops = LastForwardPass.updated_stops
           /\ trip_data.estimated_arrival = LastForwardPass.estimated_arrival

\* every planned_arrival carried by an input stop parses
AllParsable ==
    \A i \in 1..StopCount : Truthy(before.stops[i].planned_arrival) => Parsable(i)

NoAnchorWarning == \A i \in 1..StopCount : ~HasWarning("locked_time", before.stops[i].id)

\* C25: when every planned_arrival on input parses and no locked-time warning
\* is emitted, no stop of the output is reached before the departure from
\* the start or the stop before it plus the drive to it
FeasibleOrWarned ==
    (Returned /\ AllParsable /\ NoAnchorWarning) =>
        \A i \in 1..StopCount :
            trip_data.stops[i].planned_arrival.t >= EarliestArrival(i)

\* the same when every planned_arrival on input parses to a naive datetime
FeasibleOrWarnedNaive ==
    (Returned /\ NoAnchorWarning
        /\ \A i \in 1..StopCount :
              Truthy(before.stops[i].planned_arrival) =>
                  _parse_datetime(before.stops[i].planned_arrival).r = "naive") =>
        \A i \in 1..StopCount :
            trip_data.stops[i].planned_arrival.t >= EarliestArrival(i)

(***************************************************************************)
(* Properties of the stored trip across the calls of the endpoints.        *)
(***************************************************************************)
\* the anchor times the callers of add-stop supply
SuppliedTimes ==
    {sh.arrival[2].t : sh \in {s \in TripStopShapes : Truthy(s.arrival[2])}}

IdsDistinct(stops) ==
    \A i, j \in 1..Len(stops) : stops[i].id = stops[j].id => i = j

\* the stop of the id is stored with an arrival that no caller supplied: the
\* solver wrote it
SolverTimed(stops, id) ==
    \E i \in 1..Len(stops) :
        /\ stops[i].id = id
        /\ stops[i].planned_arrival.k = "naive"
        /\ stops[i].planned_arrival.t \notin SuppliedTimes

\* the arrival at stop i of stops when each stop is left as its stored
\* planned_departure says
FreshArrival(trip, i) ==
    (IF i = 1 THEN DefaultDeparture ELSE trip.stops[i - 1].planned_departure.t)
    + _get_drive_time(<<>>,
          IF i = 1 THEN trip.start_location ELSE trip.stops[i - 1].coordinates,
          trip.stops[i].coordinates)

\* C26: a call that stores the trip anew recomputes the arrival of every
\* anchor whose stored arrival was written by the solver
OnlySuppliedTimesFixed ==
    [][(response'.status = "ok" /\ IdsDistinct(db_trip.stops)
            /\ IdsDistinct(db_trip'.stops)) =>
          \A i \in 1..Len(db_trip'.stops) :
              (db_trip'.stops[i].is_anchor
                  /\ SolverTimed(db_trip.stops, db_trip'.stops[i].id)) =>
                  db_trip'.stops[i].planned_arrival.t = FreshArrival(db_trip', i)]_vars

\* the number of stops of stops that carry the id
CountId(stops, id) == Cardinality({i \in 1..Len(stops) : stops[i].id = id})

\* C28: the stop ids of the stored trip stay pairwise distinct, a successful
\* add-stop stores one stop more, a successful remove-stop one stop less, and
\* a successful reorder the same stops in some order
StopIdentity ==
    [][/\ IdsDistinct(db_trip'.stops)
       /\ ((\E id \in TripIds, sh \in TripStopShapes, position \in Positions :
               add_stop_to_trip(id, sh, position)) /\ response'.status = "ok") =>
             Len(db_trip'.stops) = Len(db_trip.stops) + 1
       /\ ((\E stop_id \in TripIds : remove_stop_from_trip(stop_id))
               /\ response'.status = "ok") =>
             Len(db_trip'.stops) = Len(db_trip.stops) - 1
       /\ ((\E stop_ids \in IdLists(MaxTripStops) : reorder_stops(stop_ids))
               /\ response'.status = "ok") =>
             \A id \in TripIds :
                 CountId(db_trip'.stops, id) = CountId(db_trip.stops, id)]_vars

\* what holds: a successful add-stop stores exactly one stop more
AddStopAddsOne ==
    [][((\E id \in TripIds, sh \in TripStopShapes, position \in Positions :
            add_stop_to_trip(id, sh, position)) /\ response'.status = "ok") =>
          Len(db_trip'.stops) = Len(db_trip.stops) + 1]_vars

(***************************************************************************)
(* RecalcSpec: recalculate-route next to the other calls on the same trip. *)
(* recalculate_trip_route reads the stored trip, awaits the routing        *)
(* provider, then solves and stores the trip it read; the event loop runs  *)
(* other requests while it waits.  add-stop, remove-stop and reorder have  *)
(* no await and run in one step.                                           *)
(*                                                                         *)
(* trip_data is the trip recalculate-route has read, before the stored     *)
(* trip at that moment, pc = "waiting" while it awaits get_route.          *)
(***************************************************************************)
\* the stops the other callers add while a recalculation may be waiting
RecalcStopShapes == {sh \in TripStopShapes : ~sh.arrival[1]}

RecalcInit ==
    /\ db_trip \in {EmptyTrip(0, e) : e \in Locations}
    /\ response = NoResponse
    /\ trip_data = EmptyTrip(0, 0)
    /\ departure_time = DefaultDeparture
    /\ drive_times = <<>>
    /\ warnings = <<>>
    /\ before = trip_data
    /\ pc = "ready"

\* recalculate_trip_route up to the await: the trip is read; without stops it
\* is answered as it is
RecalcRead ==
    /\ pc \in {"ready", "returned"}
    /\ trip_data' = db_trip
    /\ before' = db_trip
    /\ IF db_trip.stops = <<>>
       THEN /\ pc' = "returned"
            /\ response' = [status |-> "ok", warnings |-> <<>>]
       ELSE /\ pc' = "waiting"
            /\ UNCHANGED response
    /\ UNCHANGED <<departure_time, drive_times, warnings, db_trip>>

\* recalculate_trip_route from the answer of get_route on: the trip read is
\* solved and stored (a route found only replaces the "route" key of the trip,
\* which the stops and times do not depend on)
RecalcCommit ==
    /\ pc = "waiting"
    /\ \E answer \in RouteAnswers : \E route \in {get_route(answer)} :
          Commit(SolverRun(trip_data))
    /\ pc' = "returned"
    /\ UNCHANGED <<trip_data, departure_time, drive_times, warnings, before>>

RecalcNext ==
    \/ RecalcRead
    \/ RecalcCommit
    \/ \E id \in TripIds, sh \in RecalcStopShapes, position \in Positions :
          add_stop_to_trip(id, sh, position)
    \/ \E stop_id \in TripIds : remove_stop_from_trip(stop_id)
    \/ \E stop_ids \in IdLists(MaxTripStops) : reorder_stops(stop_ids)

RecalcSpec == RecalcInit /\ [][RecalcNext]_vars

\* the stops of a trip without their times
Places(trip) ==
    [i \in 1..Len(trip.stops) |->
        [id |-> trip.stops[i].id, coordinates |-> trip.stops[i].coordinates]]

\* C27: when recalculate-route commits, it stores the stops that were stored
\* just before, not those it read before waiting: what another call has
\* committed in between is still there
NoLostUpdate ==
    [][(pc = "waiting" /\ pc' = "returned") => Places(db_trip') = Places(db_trip)]_vars

\* what recalculate-route does store: the stops it read before waiting
StoresWhatItRead ==
    [][(pc = "waiting" /\ pc' = "returned") => Places(db_trip') = Places(before)]_vars

(***************************************************************************)
(* ConversationSpec: the phase of one conversation of the backend          *)
(* ConversationService under process_message and handle_stop_decision.     *)
(*                                                                         *)
(* response is the ConversationState the calls work on and answer:         *)
(* destination is "none", "one" (a location without alternatives) or       *)
(* "many" (with alternatives); current_proposal is 0 (None) or the id of   *)
(* the proposal; approved_stops is the number of approved stops.  before   *)
(* is the last call: its name, the stop_id of a decision, and the          *)
(* assignments it made to state.phase, each as <<from, to>>.               *)
(***************************************************************************)
MaxApproved == 2

ConversationPhase ==
    {"greeting", "destination", "clarify_location", "dates", "preferences",
     "planning", "propose_stop", "await_approval", "modify_stop", "finalize",
     "complete"}

PHASE_TRANSITIONS(phase) ==
    CASE phase = "greeting" -> {"destination"}
      [] phase = "destination" -> {"clarify_location", "dates"}
      [] phase = "clarify_location" -> {"destination", "dates"}
      [] phase = "dates" -> {"preferences"}
      [] phase = "preferences" -> {"planning"}
      [] phase = "planning" -> {"propose_stop"}
      [] phase = "propose_stop" -> {"await_approval"}
      [] phase = "await_approval" -> {"propose_stop", "modify_stop", "finalize"}
      [] phase = "modify_stop" -> {"propose_stop"}
      [] phase = "finalize" -> {"propose_stop", "complete"}
      [] phase = "complete" -> {}

_can_transition(current, target) == target \in PHASE_TRANSITIONS(current)

ProposalIds == {1, 2}

\* what the LLM answer and the geocoder give process_message: next_phase
\* ("none": no such key, "bogus": no phase name), and the data extracted
ParsedAnswers ==
    [next_phase : ConversationPhase \cup {"none", "bogus"},
     destination : {"none", "one", "many"},
     date_range : BOOLEAN, preferences : BOOLEAN]

\* state.phase = to, noted in the assignments of the call
Assign(acc, to) ==
    [state |-> [acc.state EXCEPT !.phase = to],
     assignments |-> Append(acc.assignments, <<acc.state.phase, to>>)]

\* _update_state_from_extracted
_update_state_from_extracted(state, extracted) ==
    [state EXCEPT
        !.destination = IF extracted.destination # "none"
                        THEN extracted.destination ELSE @,
        !.date_range = @ \/ extracted.date_range,
        !.preferences = @ \/ extracted.preferences]

\* _generate_stop_proposal when the planner offers the proposal offered
\* (0: nothing available, or the planner failed)
_generate_stop_proposal(state, offered) ==
    IF state.destination = "none" \/ ~state.date_range THEN 0 ELSE offered

\* the phase transition asked for by the answer
SuggestedPhase(acc, next_phase) ==
    IF next_phase # "none" /\ _can_transition(acc.state.phase, next_phase)
    THEN Assign(acc, next_phase)
    ELSE acc

AdvanceFromGreeting(acc) ==
    IF acc.state.phase = "greeting" /\ acc.state.destination # "none"
    THEN Assign(acc, "destination")
    ELSE acc

AdvanceFromDestination(acc) ==
    IF acc.state.phase = "destination"
    THEN IF acc.state.destination = "one" THEN Assign(acc, "dates")
         ELSE IF acc.state.destination = "many" THEN Assign(acc, "clarify_location")
         ELSE acc
    ELSE acc

AdvanceFromDates(acc) ==
    IF acc.state.phase = "dates" /\ acc.state.date_range
    THEN Assign(acc, "preferences")
    ELSE acc

\* the proposal made on entering the planning phase
FirstProposal(acc, proposal) ==
    IF proposal # 0
    THEN Assign([acc EXCEPT !.state.current_proposal = proposal], "propose_stop")
    ELSE acc

AdvanceFromPreferences(acc, offered) ==
    IF acc.state.phase = "preferences" /\ acc.state.preferences
    THEN FirstProposal(Assign(acc, "planning"),
                       _generate_stop_proposal(acc.state, offered))
    ELSE acc

\* _auto_advance_phase
_auto_advance_phase(acc, offered) ==
    AdvanceFromPreferences(
        AdvanceFromDates(AdvanceFromDestination(AdvanceFromGreeting(acc))), offered)

\* the end of the approve and reject branches: the next proposal or the end
NextOrFinalize(acc, proposal) ==
    IF proposal # 0
    THEN Assign([acc EXCEPT !.state.current_proposal = proposal], "propose_stop")
    ELSE Assign(acc, "finalize")

\* the approve branch of handle_stop_decision
Approve(acc, offered) ==
    NextOrFinalize(
        [acc EXCEPT !.state.approved_stops = @ + 1, !.state.current_proposal = 0],
        _generate_stop_proposal(acc.state, offered))

\* the reject branch of handle_stop_decision
Reject(acc, offered) ==
    NextOrFinalize(Assign(acc, "modify_stop"),
                   _generate_stop_proposal(acc.state, offered))

\* the state after start_conversation
ConversationInit ==
    /\ response = [phase |-> "greeting", destination |-> "none",
                   date_range |-> FALSE, preferences |-> FALSE,
                   current_proposal |-> 0, approved_stops |-> 0]
    /\ before = [call |-> "start_conversation", stop_id |-> 0, assignments |-> <<>>]
    /\ pc = "ready"
    /\ trip_data = EmptyTrip(0, 0)
    /\ departure_time = DefaultDeparture
    /\ drive_times = <<>>
    /\ warnings = <<>>
    /\ db_trip = EmptyTrip(0, 0)

\* process_message on the conversation
process_message ==
    /\ \E parsed \in ParsedAnswers : \E offered \in {0} \cup ProposalIds :
       \E updated \in {_update_state_from_extracted(response, parsed)} :
          IF parsed.next_phase = "bogus"
          THEN \* ConversationPhase(next_phase): ValueError
               /\ response' = updated
               /\ before' = [call |-> "process_message", stop_id |-> 0,
                             assignments |-> <<>>]
               /\ pc' = "raised"
          ELSE \E acc \in {_auto_advance_phase(
                              SuggestedPhase([state |-> updated, assignments |-> <<>>],
                                             parsed.next_phase), offered)} :
                  /\ response' = acc.state
                  /\ before' = [call |-> "process_message", stop_id |-> 0,
                                assignments |-> acc.assignments]
                  /\ pc' = "returned"
    /\ UNCHANGED <<trip_data, departure_time, drive_times, warnings, db_trip>>

\* handle_stop_decision on the conversation
handle_stop_decision ==
    /\ \E decision \in {"approve", "reject", "modify"} :
       \E stop_id \in ProposalIds : \E offered \in {0} \cup ProposalIds :
          IF \/ response.phase # "await_approval"
             \/ response.current_proposal = 0
             \/ response.current_proposal # stop_id
          THEN /\ before' = [call |-> "handle_stop_decision", stop_id |-> stop_id,
                             assignments |-> <<>>]
               /\ pc' = "raised"
               /\ UNCHANGED response
          ELSE /\ decision = "approve" => response.approved_stops < MaxApproved
               /\ \E acc \in {IF decision = "approve"
                              THEN Approve([state |-> response, assignments |-> <<>>],
                                           offered)
                              ELSE IF decision = "reject"
                              THEN Reject([state |-> response, assignments |-> <<>>],
                                          offered)
                              ELSE Assign([state |-> response, assignments |-> <<>>],
                                          "modify_stop")} :
                    /\ response' = acc.state
                    /\ before' = [call |-> "handle_stop_decision",
                                  stop_id |-> stop_id,
                                  assignments |-> acc.assignments]
                    /\ pc' = "returned"
    /\ UNCHANGED <<trip_data, departure_time, drive_times, warnings, db_trip>>

ConversationNext == process_message \/ handle_stop_decision

ConversationSpec == ConversationInit /\ [][ConversationNext]_vars

\* every assignment of the last call is listed in PHASE_TRANSITIONS
AssignmentsAllowed(call) ==
    \A k \in 1..Len(call.assignments) :
        call.assignments[k][2] \in PHASE_TRANSITIONS(call.assignments[k][1])

\* C29: every assignment to the phase made by a call follows
\* PHASE_TRANSITIONS; the phase complete is never left; handle_stop_decision
\* fails and changes nothing unless the phase is await_approval and the stop
\* id is that of the current proposal
PhasesFollowTable ==
    [][/\ AssignmentsAllowed(before')
       /\ response.phase = "complete" => response'.phase = "complete"
       /\ (before'.call = "handle_stop_decision"
              /\ (response.phase # "await_approval"
                     \/ response.current_proposal # before'.stop_id)) =>
             (pc' = "raised" /\ response' = response)]_vars

\* the same for process_message, and for handle_stop_decision without the
\* assignments of its reject branch
PhasesFollowTableButReject ==
    [][/\ (before'.call = "process_message"
              \/ response'.phase # "finalize"
              \/ Len(before'.assignments) < 2) => AssignmentsAllowed(before')
       /\ response.phase = "complete" => response'.phase = "complete"
       /\ (before'.call = "handle_stop_decision"
              /\ (response.phase # "await_approval"
                     \/ response.current_proposal # before'.stop_id)) =>
             (pc' = "raised" /\ response' = response)]_vars

(***************************************************************************)
(* ReportSpec: the report pipeline of api/agents/graph.py.  LangGraph runs *)
(* the node pc names; after validate the conditional edge                  *)
(* should_retry_or_generate chooses the next node.                         *)
(*                                                                         *)
(* response is the TripReportState (enriched_stops and validated_stops by  *)
(* their number), before the nodes run so far, pc the node to run next     *)
(* ("END" when the graph has ended).                                       *)
(***************************************************************************)
MaxReportStops == 5

\* create_initial_state
InitialReportState ==
    [enriched_stops |-> 0, research_complete |-> FALSE, research_attempts |-> 0,
     validation_status |-> "pending", validated_stops |-> 0,
     generation_status |-> "pending"]

\* the overall status validation_agent derives from the counts
ValidationStatus(total_stops, valid_count) ==
    IF total_stops = 0 THEN "invalid"
    ELSE IF valid_count = total_stops THEN "valid"
    ELSE IF 10 * valid_count >= 8 * total_stops THEN "partial"
    ELSE "invalid"

\* the routing with the slip of allowing a retry after the third attempt
ShouldRetryOnceMore(state) ==
    IF state.validation_status = "valid" THEN "generate"
    ELSE IF state.validation_status = "partial" THEN "generate"
    ELSE IF state.research_attempts <= 3 THEN "research"
    ELSE "generate"

should_retry_or_generate(state) ==
    IF state.validation_status = "valid" THEN "generate"
    ELSE IF state.validation_status = "partial" THEN "generate"
    ELSE IF state.research_attempts < 3 THEN "research"
    ELSE "generate"

ReportInit ==
    /\ response = InitialReportState
    /\ before = <<>>
    /\ pc = "research"
    /\ trip_data = EmptyTrip(0, 0)
    /\ departure_time = DefaultDeparture
    /\ drive_times = <<>>
    /\ warnings = <<>>
    /\ db_trip = EmptyTrip(0, 0)

\* the node research: some number of stops enriched and discovered
research_agent ==
    /\ pc = "research"
    /\ \E found \in 0..MaxReportStops :
          response' = [response EXCEPT !.enriched_stops = found,
                                       !.research_complete = TRUE,
                                       !.research_attempts = @ + 1]
    /\ before' = Append(before, "research")
    /\ pc' = "validate"
    /\ UNCHANGED <<trip_data, departure_time, drive_times, warnings, db_trip>>

\* the node validate, some of the stops passing, and the conditional edge
validation_agent ==
    /\ pc = "validate"
    /\ \E valid_count \in 0..response.enriched_stops :
       \E validated \in {[response EXCEPT
                             !.validation_status =
                                 ValidationStatus(response.enriched_stops, valid_count),
                             !.validated_stops = valid_count]} :
          /\ response' = validated
          /\ pc' = should_retry_or_generate(validated)
    /\ before' = Append(before, "validate")
    /\ UNCHANGED <<trip_data, departure_time, drive_times, warnings, db_trip>>

\* the node generate and the edge to END
html_generator_agent ==
    /\ pc = "generate"
    /\ response' = [response EXCEPT !.generation_status = "complete"]
    /\ before' = Append(before, "generate")
    /\ pc' = "END"
    /\ UNCHANGED <<trip_data, departure_time, drive_times, warnings, db_trip>>

ReportNext == research_agent \/ validation_agent \/ html_generator_agent

ReportSpec == ReportInit /\ [][ReportNext]_vars

\* invoke runs the scheduled node until the graph has ended
ReportFairSpec == ReportSpec /\ WF_vars(ReportNext)

\* the number of times research has run
ResearchRuns == Cardinality({k \in 1..Len(before) : before[k] = "research"})

\* C30: the pipeline ends, and it ends after generate; research runs at most
\* 3 times; research follows validate only when the status is neither valid
\* nor partial and fewer than 3 attempts have been made
ReportTerminates ==
    /\ <>(pc = "END")
    /\ [](pc = "END" => before[Len(before)] = "generate")
    /\ [](ResearchRuns <= 3)
    /\ [][(pc = "validate" /\ pc' = "research") =>
             /\ response'.validation_status \notin {"valid", "partial"}
             /\ response'.research_attempts < 3]_vars

\* the graph has ended after three rounds of research that did not validate
ReportTerminatesWitness ==
    /\ pc = "END"
    /\ ResearchRuns = 3
    /\ response.validation_status = "invalid"

====
